---------------------------- MODULE Spec2Model ----------------------------
(***************************************************************************)
(* Model of dig_open_data: the resumable retry stream (streams.py), the    *)
(* on-disk cache store (cache.py), the cached and downloading open_text    *)
(* paths (api.py), the S3 backend (backends.py) and processes sharing one  *)
(* cache directory.                                                        *)
(*                                                                         *)
(* Text is a sequence of one-character strings.  Time is in seconds.       *)
(***************************************************************************)
EXTENDS Integers, Sequences, FiniteSets, TLC

\* ------------------------------------------------------------------ bounds

\* Length of the object's text.
ContentLen == 3
\* Largest retry budget a handle is opened with.
MaxRetries == 2
\* Largest explicit size argument of read(size) / readline(size).
MaxReadSize == 2

\* Largest cache cap (CacheConfig.max_bytes) and largest object size.
MaxCap == 3
MaxSize == 2
\* How many days the clock runs.
MaxDays == 2
\* How often a handle is closed.
MaxCloses == 3

\* streams.py:136, the bounded read of _skip_chars.
SkipChunk == 8192
\* cache.py:22, ttl_days * 24 * 60 * 60.
SecondsPerDay == 86400

Min(a, b) == IF a < b THEN a ELSE b
Max(a, b) == IF a > b THEN a ELSE b

\* The text of the remote object the retry handle reads; a line break at
\* every third character.
FullText == <<"a", "b", "\n", "c", "d", "\n", "e", "f", "\n", "g", "h", "\n">>
Content == SubSeq(FullText, 1, ContentLen)

\* fail_after = None in FlakyTextStream.
NoFail == -1
\* size = None (or negative): read to the end.
ReadAll == -1

VARIABLES
    \* --- resumable retry stream (streams.py RetryingTextIO) ---
    plan,        \* the payloads the backend serves, one per open_binary call
    opens,       \* backend.calls: how often the stream factory was invoked
    stream,      \* self._stream
    remaining,   \* self._remaining
    chars_read,  \* self._chars_read
    retries,     \* the retry budget the handle was opened with
    delivered,   \* all text returned to the caller so far
    last,        \* what the caller's last call did
    live,        \* the streams the factory returned that are not closed
    \* --- cache store (cache.py) and cached open_text (api.py) ---
    max_bytes,   \* CacheConfig.max_bytes
    ttl_days,    \* CacheConfig.ttl_days
    now,         \* int(time.time())
    index,       \* index.jsonl: the (key, entry) records, in file order
    files,       \* objects/<sha256(key)>: the content each object file holds
    remote,      \* the remote objects: version (content), ETag, Last-Modified, size
    everPut,     \* the keys put so far
    res,         \* what the last cache operation or open_text call did
    pending,     \* the open_text call that is waiting for the backend
    \* --- S3 backend (backends.py S3HttpBackend) ---
    endpoints,   \* how each candidate endpoint answers its requests
    s3,          \* what the last backend call did
    \* --- processes sharing one cache directory ---
    procs,       \* each process: where it is in its call and its local values
    partials,    \* objects/*.partial: the in-progress download of each process
    torn,        \* index.jsonl is open for writing: its content is not final
    \* --- a handle returned by open_text ---
    handle,      \* the wrappers and resources of the handle, and its last close
    \* --- the backend registry (api.py) ---
    backends     \* _BACKENDS: the backend registered for each scheme

retryVars == <<plan, opens, stream, remaining, chars_read, retries, delivered, last, live>>
cacheVars == <<max_bytes, ttl_days, now, index, files, remote, everPut, res, pending>>
backendVars == <<endpoints, s3>>
raceVars == <<procs, partials, torn>>
handleVars == <<handle>>
apiVars == <<backends>>
vars == <<retryVars, cacheVars, backendVars, raceVars, handleVars, apiVars>>

\* ------------------------------------------------- the underlying stream

\* One payload of the backend.  kind "flaky" is the stream of the tests,
\* FlakyTextStream(data, fail_after): the text it carries and the position
\* at which reading it fails, once (at the start, after one character,
\* before the last character or at the end).  kind "gzip" is a gzip payload behind
\* open_text_stream; with fail_after set it is cut short in its body and
\* fail_after is the number of characters that can be decoded from it.
\* kind "raise" is an open_binary call that raises.
FailPositions == {0, 1, ContentLen - 1, ContentLen}
FailingPayloads ==
    {[data |-> Content, fail_after |-> f, kind |-> "flaky"] : f \in FailPositions}
Payloads ==
    FailingPayloads
    \cup {[data |-> SubSeq(Content, 1, n), fail_after |-> NoFail, kind |-> "flaky"]
             : n \in 0..ContentLen}

\* gzip payloads cut short: nothing can be decoded, one character can, or
\* all the text can and only the trailer is missing.
TruncatedPayloads ==
    {[data |-> Content, fail_after |-> a, kind |-> "gzip"] : a \in {0, 1, ContentLen}}
GzipPayloads ==
    TruncatedPayloads \cup {[data |-> Content, fail_after |-> NoFail, kind |-> "gzip"]}

\* backend.open_binary raises (the object has been removed meanwhile).
OpenFails == [data |-> <<>>, fail_after |-> NoFail, kind |-> "raise"]

\* The payload lists of a backend (FakeBackend(payloads)): a stream is only
\* replaced after it failed, so every payload but the last is a failing one;
\* the last is served again when the list runs out.  The first open_binary
\* call, made by RetryingTextIO.__init__, returned a stream.
FlakyPlans(r) ==
    UNION {{p \in [1..(k + 1) -> Payloads] : \A i \in 1..k : p[i] \in FailingPayloads}
           : k \in 0..r}
GzipPlans(r) ==
    UNION {{p \in [1..(k + 1) -> GzipPayloads \cup {OpenFails}] :
               /\ p[1] # OpenFails
               /\ \A i \in 1..k : p[i] \in TruncatedPayloads \cup {OpenFails}}
           : k \in 0..r}
Plans(r) == FlakyPlans(r) \cup GzipPlans(r)

\* FlakyTextStream.__init__, or open_text_stream on a gzip payload; loaded
\* says whether the TextIOWrapper has decoded the payload's chunk.
NewStream(p, n) ==
    [data |-> p.data, pos |-> 0, fail_after |-> p.fail_after, failed |-> FALSE,
     closed |-> FALSE, id |-> n, kind |-> p.kind, loaded |-> FALSE]

\* The error a failing stream raises: its type and the stream that raised it.
StreamError(s) ==
    [type |-> "EOFError", from |-> s.id,
     msg |-> IF s.kind = "gzip"
             THEN "Compressed file ended before the end-of-stream marker was reached"
             ELSE "Simulated truncated stream"]

\* A read of a closed text stream.
ClosedError(s) ==
    [type |-> "ValueError", from |-> s.id, msg |-> "I/O operation on closed file."]

\* The error of a failing open_binary call number n.
OpenError(n) ==
    [type |-> "FileNotFoundError", from |-> n, msg |-> "S3 object not found"]

\* Position of the end of the line that starts after pos in the first upto
\* characters: just past the next line break, or 0 when there is none.
LineBreak(data, pos, upto) ==
    LET brk == {i \in (pos + 1)..upto : data[i] = "\n"}
    IN IF brk = {} THEN 0 ELSE CHOOSE i \in brk : \A j \in brk : i <= j

\* read(size) / readline(size) of the text stream over a gzip payload cut
\* short.  The decompressor yields the decodable characters in one chunk
\* and raises EOFError on every later call.  read() asks the decompressor
\* for everything and raises, dropping the chunk when it was not decoded
\* yet; read(size) and readline are served from the decoded chunk, and one
\* that needs more than the chunk holds takes what is left of it and
\* raises, after which nothing can be read.
TruncatedOp(s, op, size) ==
    LET brk == LineBreak(s.data, s.pos, s.fail_after)
        end == IF op = "read" THEN s.pos + size
               ELSE IF brk = 0 THEN (IF size < 0 THEN s.fail_after + 1 ELSE s.pos + size)
               ELSE IF size < 0 THEN brk ELSE Min(brk, s.pos + size)
    IN IF op = "read" /\ size < 0
       THEN [ok |-> FALSE, chunk |-> <<>>, err |-> StreamError(s),
             s |-> [s EXCEPT !.failed = TRUE, !.loaded = TRUE,
                             !.fail_after = IF s.loaded THEN @ ELSE 0]]
       ELSE IF end <= s.fail_after
       THEN [ok |-> TRUE, chunk |-> SubSeq(s.data, s.pos + 1, end), err |-> StreamError(s),
             s |-> [s EXCEPT !.pos = end, !.loaded = TRUE]]
       ELSE [ok |-> FALSE, chunk |-> <<>>, err |-> StreamError(s),
             s |-> [s EXCEPT !.failed = TRUE, !.loaded = TRUE, !.fail_after = 0]]

\* FlakyTextStream.read(size): fails once when the position has reached
\* fail_after, otherwise returns up to size characters (all when size < 0);
\* it does not look at closed.  The read of a text stream over a gzip
\* payload raises ValueError when the stream is closed.
StreamRead(s, size) ==
    IF s.kind = "gzip" /\ s.closed
    THEN [ok |-> FALSE, chunk |-> <<>>, err |-> ClosedError(s), s |-> s]
    ELSE IF s.kind = "gzip" /\ s.fail_after # NoFail
    THEN TruncatedOp(s, "read", size)
    ELSE IF s.fail_after # NoFail /\ ~s.failed /\ s.pos >= s.fail_after
    THEN [ok |-> FALSE, chunk |-> <<>>, err |-> StreamError(s),
          s |-> [s EXCEPT !.failed = TRUE]]
    ELSE LET end == IF size < 0 THEN Len(s.data) ELSE Min(Len(s.data), s.pos + size)
         IN [ok |-> TRUE, chunk |-> SubSeq(s.data, s.pos + 1, end), err |-> StreamError(s),
             s |-> [s EXCEPT !.pos = end]]

\* Position of the end of the line that starts after pos: just past the next
\* line break, or the end of the text.
LineEnd(data, pos) ==
    LET brk == {i \in (pos + 1)..Len(data) : data[i] = "\n"}
    IN IF brk = {} THEN Len(data) ELSE CHOOSE i \in brk : \A j \in brk : i <= j

\* readline(size) of the text stream: as read, but stops after a line
\* break.  FlakyTextStream.readline is its read.
StreamReadline(s, size) ==
    IF s.kind = "flaky" THEN StreamRead(s, size)
    ELSE IF s.closed
    THEN [ok |-> FALSE, chunk |-> <<>>, err |-> ClosedError(s), s |-> s]
    ELSE IF s.fail_after # NoFail
    THEN TruncatedOp(s, "readline", size)
    ELSE LET eol == LineEnd(s.data, s.pos)
             end == IF size < 0 THEN eol ELSE Min(eol, s.pos + size)
         IN [ok |-> TRUE, chunk |-> SubSeq(s.data, s.pos + 1, end), err |-> StreamError(s),
             s |-> [s EXCEPT !.pos = end]]

StreamOp(s, op, size) ==
    IF op = "readline" THEN StreamReadline(s, size) ELSE StreamRead(s, size)

\* ------------------------------------------------------- RetryingTextIO

NoError == [type |-> "none", from |-> 0, msg |-> ""]

\* streams.py:138, the failure of _skip_chars when the reopened stream ends
\* before the retry offset.
ResyncError(s) ==
    [type |-> "EOFError", from |-> s.id,
     msg |-> "Stream ended before retry offset could be reached"]

\* _RETRY_ERRORS = (gzip.BadGzipFile, EOFError, OSError)
RetryErrors == {"BadGzipFile", "EOFError", "OSError"}

\* The stream factory of open_text (def opener): backend.open_binary, which
\* serves payload min(calls, len(payloads)), wrapped by open_text_stream.
Opener(m) ==
    LET n == m.opens + 1
        p == plan[Min(n, Len(plan))]
    IN IF p.kind = "raise"
       THEN [m EXCEPT !.opens = n, !.openFailed = TRUE]
       ELSE [m EXCEPT !.opens = n, !.stream = NewStream(p, n),
                      !.live = @ \cup {n},
                      !.peak = Max(@, Cardinality(m.live \cup {n}))]

SkipEndedQuietly(s) == [ok |-> TRUE, err |-> NoError, s |-> s, eof |-> TRUE]

\* _skip_chars, line 137-138: the reopened stream returned "" too early.
SkipEnded(s) == [ok |-> FALSE, err |-> ResyncError(s), s |-> s, eof |-> TRUE]

\* RetryingTextIO._skip_chars(count): read and drop count characters.
RECURSIVE SkipChars(_, _)
SkipChars(s, count) ==
    IF count <= 0
    THEN [ok |-> TRUE, err |-> NoError, s |-> s, eof |-> FALSE]
    ELSE LET r == StreamRead(s, Min(SkipChunk, count))
         IN IF ~r.ok THEN [ok |-> FALSE, err |-> r.err, s |-> r.s, eof |-> FALSE]
            ELSE IF r.chunk = <<>> THEN SkipEnded(r.s)
            ELSE SkipChars(r.s, count - Len(r.chunk))

RetryLeavesOpen(m) ==
    IF m.remaining <= 0
    THEN [ret |-> "false", m |-> m, err |-> NoError]
    ELSE LET m1 == [m EXCEPT !.remaining = @ - 1]
             m2 == Opener(m1)
             k == SkipChars(m2.stream, m2.chars_read)
             m3 == [m2 EXCEPT !.stream = k.s, !.resync = k.eof,
                              !.retryFailed = ~k.ok]
         IN IF m2.openFailed
            THEN [ret |-> "raise", m |-> m2, err |-> OpenError(m2.opens)]
            ELSE IF k.ok
            THEN [ret |-> "true", m |-> m3, err |-> NoError]
            ELSE [ret |-> "raise", m |-> m3, err |-> k.err]

\* RetryingTextIO._retry: "false" when the budget is spent; otherwise one
\* unit of budget is used, the broken stream closed, a new one opened and
\* wound forward to the offset already delivered ("true"), unless the
\* factory or winding forward raises ("raise"); when the factory raises,
\* self._stream is still the stream just closed.
Retry(m) ==
    IF m.remaining <= 0
    THEN [ret |-> "false", m |-> m, err |-> NoError]
    ELSE LET m1 == [m EXCEPT !.remaining = @ - 1, !.stream.closed = TRUE,
                              !.live = @ \ {m.stream.id}]
             m2 == Opener(m1)
             k == SkipChars(m2.stream, m2.chars_read)
             m3 == [m2 EXCEPT !.stream = k.s, !.resync = k.eof,
                              !.retryFailed = ~k.ok]
         IN IF m2.openFailed
            THEN [ret |-> "raise", m |-> m2, err |-> OpenError(m2.opens)]
            ELSE IF k.ok
            THEN [ret |-> "true", m |-> m3, err |-> NoError]
            ELSE [ret |-> "raise", m |-> m3, err |-> k.err]

ReraiseSwallowed(m, err) == [kind |-> "text", text |-> <<>>, err |-> NoError, m |-> m]

\* "if not self._retry(): raise": the error of the failed read goes to the
\* caller as it is.
Reraise(m, err) == [kind |-> "raise", text |-> <<>>, err |-> err, m |-> m]

\* RetryingTextIO.read / readline: the loop around the stream's own call.
RECURSIVE ReadLoop(_, _, _)
ReadLoop(m, op, size) ==
    LET r == StreamOp(m.stream, op, size)
    IN IF r.ok
       THEN [kind |-> "text", text |-> r.chunk, err |-> NoError,
             m |-> [m EXCEPT !.stream = r.s, !.chars_read = @ + Len(r.chunk)]]
       ELSE LET m1 == [m EXCEPT !.stream = r.s,
                                !.zeroHit = (m.remaining <= 0 /\ r.err.type \in RetryErrors)]
            IN IF r.err.type \notin RetryErrors
               THEN [kind |-> "raise", text |-> <<>>, err |-> r.err, m |-> m1]
               ELSE LET t == Retry(m1)
                    IN IF t.ret = "false" THEN Reraise(t.m, r.err)
                       ELSE IF t.ret = "raise"
                       THEN [kind |-> "raise", text |-> <<>>, err |-> t.err, m |-> t.m]
                       ELSE ReadLoop(t.m, op, size)

CallResetsBudget(op, size) ==
    LET m0 == [stream |-> stream, remaining |-> Max(0, retries), chars_read |-> chars_read,
               opens |-> opens, zeroHit |-> FALSE, resync |-> FALSE,
               retryFailed |-> FALSE, live |-> live, peak |-> Cardinality(live),
               openFailed |-> FALSE]
    IN \E o \in {ReadLoop(m0, op, size)} :
       /\ live' = o.m.live
       /\ stream' = o.m.stream
       /\ remaining' = o.m.remaining
       /\ chars_read' = o.m.chars_read
       /\ opens' = o.m.opens
       /\ delivered' = delivered \o o.text
       /\ last' = [op |-> op, size |-> size, kind |-> o.kind, text |-> o.text,
                   err |-> o.err, lenBefore |-> Len(delivered), opensBefore |-> opens,
                   zeroHit |-> o.m.zeroHit, resync |-> o.m.resync,
                   retryFailed |-> last.retryFailed \/ o.m.retryFailed,
                   peak |-> o.m.peak]
       /\ UNCHANGED <<plan, retries, cacheVars, backendVars, raceVars, handleVars, apiVars>>

\* One call of the caller on the handle, closed or not.
Call(op, size) ==
    LET m0 == [stream |-> stream, remaining |-> remaining, chars_read |-> chars_read,
               opens |-> opens, zeroHit |-> FALSE, resync |-> FALSE,
               retryFailed |-> FALSE, live |-> live, peak |-> Cardinality(live),
               openFailed |-> FALSE]
    IN \E o \in {ReadLoop(m0, op, size)} :
       /\ live' = o.m.live
       /\ stream' = o.m.stream
       /\ remaining' = o.m.remaining
       /\ chars_read' = o.m.chars_read
       /\ opens' = o.m.opens
       /\ delivered' = delivered \o o.text
       /\ last' = [op |-> op, size |-> size, kind |-> o.kind, text |-> o.text,
                   err |-> o.err, lenBefore |-> Len(delivered), opensBefore |-> opens,
                   zeroHit |-> o.m.zeroHit, resync |-> o.m.resync,
                   retryFailed |-> last.retryFailed \/ o.m.retryFailed,
                   peak |-> o.m.peak]
       /\ UNCHANGED <<plan, retries, cacheVars, backendVars, raceVars, handleVars, apiVars>>

\* RetryingTextIO.close: self._stream.close()
CloseRetrying ==
    /\ ~stream.closed
    /\ stream' = [stream EXCEPT !.closed = TRUE]
    /\ live' = live \ {stream.id}
    /\ UNCHANGED <<plan, opens, remaining, chars_read, retries, delivered, last,
                   cacheVars, backendVars, raceVars, handleVars, apiVars>>

ReadSizes == {ReadAll} \cup (1..MaxReadSize)

\* RetryingTextIO.read(size)
Read(size) == Call("read", size)

\* RetryingTextIO.readline(size)
Readline(size) == Call("readline", size)


\* ------------------------------------------------------------ CacheStore

\* The request URIs used as cache keys.  The object file of a key is
\* objects/<sha256(key)>: one path per key, named here by the key itself.
Keys == {"s3://b/x", "s3://b/y"}
\* The keys of the store that is checked for its order of eviction.
LruKeys == Keys \cup {"s3://b/z"}
\* The remote URI that open_text is called with; its object is uploaded
\* again while the cache is in use.
Opened == {"s3://b/x"}

\* No object file at a path.
NoFile == 0
\* Python None: an absent metadata field, an absent TTL.
None == 0
NoTtl == -1
\* _get_content_length returned None.
NoLength == -1

NoMeta == [etag |-> None, last_modified |-> None, content_length |-> None]

NoEntry ==
    [key |-> "", path |-> "", size |-> 0, last_access |-> 0,
     etag |-> None, last_modified |-> None, content_length |-> None]

\* dict operations on the index, which keeps insertion order.
Has(idx, key) == \E i \in 1..Len(idx) : idx[i].key = key
Lookup(idx, key) == idx[CHOOSE i \in 1..Len(idx) : idx[i].key = key]
DictSet(idx, e) ==
    IF Has(idx, e.key)
    THEN [i \in 1..Len(idx) |-> IF idx[i].key = e.key THEN e ELSE idx[i]]
    ELSE Append(idx, e)
DictDel(idx, key) == SelectSeq(idx, LAMBDA e : e.key # key)
KeysOf(idx) == {idx[i].key : i \in 1..Len(idx)}

\* CacheStore._load_index / _write_index on the directory d = [index, files].
LoadIndex(d) == d.index
WriteIndex(d, idx) == [d EXCEPT !.index = idx]

\* sum(int(v.get("size", 0)) for v in index.values())
RECURSIVE Total(_)
Total(idx) == IF idx = <<>> THEN 0 ELSE Head(idx).size + Total(Tail(idx))

\* sorted(index.items(), key=last_access): stable, ascending.
RECURSIVE InsertByAccess(_, _)
InsertByAccess(sorted, e) ==
    IF sorted = <<>> THEN <<e>>
    ELSE IF Head(sorted).last_access <= e.last_access
         THEN <<Head(sorted)>> \o InsertByAccess(Tail(sorted), e)
         ELSE <<e>> \o sorted
SortedByInsertion(idx) == idx

RECURSIVE SortedByAccess(_)
SortedByAccess(idx) ==
    IF idx = <<>> THEN <<>>
    ELSE InsertByAccess(SortedByAccess(SubSeq(idx, 1, Len(idx) - 1)), idx[Len(idx)])

DeleteEntryKeepsFile(d, key, entry) ==
    IF Has(LoadIndex(d), key) THEN WriteIndex(d, DictDel(LoadIndex(d), key)) ELSE d

\* CacheStore._delete_entry: remove the object file, then reload the index
\* from disk, drop the key and write the index back.
DeleteEntry(d, key, entry) ==
    LET d1 == IF entry.path # "" /\ d.files[entry.path] # NoFile
              THEN [d EXCEPT !.files[entry.path] = NoFile]
              ELSE d
        idx == LoadIndex(d1)
    IN IF Has(idx, key) THEN WriteIndex(d1, DictDel(idx, key)) ELSE d1

\* The for loop of _evict_if_needed: after each deletion the total is summed
\* again over mem, the dict put passed in, which _delete_entry never changes.
\* Returns the directory and, in deleted, the entries handed to _delete_entry
\* so far, in the order of the calls.
RECURSIVE EvictLoop(_, _, _, _, _)
EvictLoop(d, entries, mem, cap, deleted) ==
    IF entries = <<>> THEN [d |-> d, deleted |-> deleted]
    ELSE LET d1 == DeleteEntry(d, Head(entries).key, Head(entries))
             now_deleted == Append(deleted, Head(entries))
         IN IF Total(mem) <= cap THEN [d |-> d1, deleted |-> now_deleted]
            ELSE EvictLoop(d1, Tail(entries), mem, cap, now_deleted)

EvictOldestOnly(d, mem) ==
    IF Total(mem) <= Max(0, max_bytes) THEN [d |-> d, deleted |-> <<>>]
    ELSE [d |-> DeleteEntry(d, Head(SortedByAccess(mem)).key, Head(SortedByAccess(mem))),
          deleted |-> <<Head(SortedByAccess(mem))>>]

\* CacheStore._evict_if_needed(index): the directory it leaves and the
\* entries it deleted, in the order it deleted them.
EvictIfNeeded(d, mem) ==
    LET cap == Max(0, max_bytes)
    IN IF Total(mem) <= cap THEN [d |-> d, deleted |-> <<>>]
       ELSE EvictLoop(d, SortedByAccess(mem), mem, cap, <<>>)

\* CacheStore.put(key, source_path, size, metadata): the temp file, which
\* holds content ver, replaces the object file; the entry is recorded and
\* eviction runs.  Returns the directory, the dict handed to eviction, the
\* entries eviction deleted in the order of their deletion, and dest_path.
\* (created_at, which no code reads, is left out of the entry.)
StorePut(d, key, size, ver, meta) ==
    LET d1 == [d EXCEPT !.files[key] = ver]
        entry == [key |-> key, path |-> key, size |-> size,
                  last_access |-> now, etag |-> meta.etag,
                  last_modified |-> meta.last_modified,
                  content_length |-> meta.content_length]
        mem == DictSet(LoadIndex(d1), entry)
        d2 == WriteIndex(d1, mem)
        ev == EvictIfNeeded(d2, mem)
    IN [d |-> ev.d, mem |-> mem, deleted |-> ev.deleted, path |-> key]

ExpiredNever(entry) == FALSE

\* CacheStore._expired
Expired(entry) ==
    IF ttl_days = NoTtl THEN FALSE
    ELSE (now - entry.last_access) > ttl_days * SecondsPerDay

\* CacheStore._touch
Touch(d, key, entry) ==
    LET e == [entry EXCEPT !.last_access = now]
    IN [d |-> WriteIndex(d, DictSet(LoadIndex(d), e)), found |-> TRUE, entry |-> e]

\* CacheStore.get(key)
StoreGet(d, key) ==
    LET idx == LoadIndex(d)
    IN IF ~Has(idx, key) THEN [d |-> d, found |-> FALSE, entry |-> NoEntry]
       ELSE LET entry == Lookup(idx, key)
            IN IF entry.path = "" \/ d.files[entry.path] = NoFile
               THEN [d |-> DeleteEntry(d, key, entry), found |-> FALSE, entry |-> NoEntry]
               ELSE IF Expired(entry)
               THEN [d |-> DeleteEntry(d, key, entry), found |-> FALSE, entry |-> NoEntry]
               ELSE Touch(d, key, entry)

\* CacheStore.delete(key)
StoreDelete(d, key) ==
    IF Has(LoadIndex(d), key) THEN DeleteEntry(d, key, Lookup(LoadIndex(d), key)) ELSE d

Disk == [index |-> index, files |-> files]

\* The key is indexed but its object file is not on disk.
FileLost(d, key) ==
    /\ Has(d.index, key)
    /\ d.files[Lookup(d.index, key).path] = NoFile

\* The contents a temp file handed to put may hold.
Contents == {1, 2}
\* CacheConfig.ttl_days: None, or one day.
TtlChoices == {NoTtl, 1}

NoRes ==
    [op |-> "none", key |-> "", kind |-> "none", ver |-> 0, size |-> 0, at |-> 0,
     mem |-> <<>>, entry |-> NoEntry, afterPut |-> FALSE, putVer |-> 0,
     refresh |-> FALSE, hit |-> FALSE, cmp |-> <<"", "", "">>, valid |-> FALSE,
     fetched |-> 0, dlok |-> FALSE, want |-> 0, nometa |-> FALSE,
     had |-> FALSE, age |-> 0, lost |-> FALSE, r |-> 0, declared |-> NoLength,
     received |-> 0, nf |-> 0, cut |-> FALSE, err |-> "",
     api |-> "", uri |-> "", route |-> "", selected |-> "", touched |-> FALSE,
     cached |-> FALSE, download |-> FALSE, left |-> 0, gone |-> FALSE,
     deleted |-> <<>>, touched_key |-> ""]

\* put(key, path, size) by a user of the store, with a temp file of content ver.
\* The result notes the entries eviction deleted, in order, and the key of
\* the entry a get touched when that get was the operation just before.
Put(key, size, ver) ==
    \E o \in {StorePut(Disk, key, size, ver, NoMeta)} :
        /\ index' = o.d.index
        /\ files' = o.d.files
        /\ everPut' = everPut \cup {key}
        /\ res' = [NoRes EXCEPT !.op = "put", !.key = key, !.kind = "path", !.ver = ver,
                                !.size = size, !.at = now, !.mem = o.mem,
                                !.deleted = o.deleted,
                                !.touched_key = IF res.op = "get" /\ res.kind = "entry"
                                                THEN res.key ELSE ""]
        /\ UNCHANGED <<pending, max_bytes, ttl_days, now, remote, retryVars, backendVars, raceVars, handleVars, apiVars>>

\* get(key)
Get(key) ==
    \E o \in {StoreGet(Disk, key)} :
        /\ index' = o.d.index
        /\ files' = o.d.files
        /\ res' = [NoRes EXCEPT !.op = "get", !.key = key,
                                !.kind = IF o.found THEN "entry" ELSE "absent",
                                !.ver = IF o.found THEN o.d.files[o.entry.path] ELSE 0,
                                !.at = now, !.entry = o.entry,
                                !.afterPut = (res.op = "put" /\ res.key = key /\ res.at = now),
                                !.putVer = res.ver,
                                !.had = Has(index, key),
                                !.lost = FileLost(Disk, key),
                                !.age = IF Has(index, key)
                                        THEN now - Lookup(index, key).last_access
                                        ELSE 0]
        /\ UNCHANGED <<pending, max_bytes, ttl_days, now, remote, everPut, retryVars, backendVars, raceVars, handleVars, apiVars>>

\* delete(key)
Delete(key) ==
    \E d \in {StoreDelete(Disk, key)} :
        /\ index' = d.index
        /\ files' = d.files
        /\ res' = [NoRes EXCEPT !.op = "delete", !.key = key, !.at = now]
        /\ UNCHANGED <<pending, max_bytes, ttl_days, now, remote, everPut, retryVars, backendVars, raceVars, handleVars, apiVars>>

\* The object file of an indexed key is removed from the cache directory
\* behind the store's back.
LoseFile(key) ==
    /\ Has(index, key)
    /\ files[key] # NoFile
    /\ files' = [files EXCEPT ![key] = NoFile]
    /\ res' = [NoRes EXCEPT !.op = "lose", !.key = key]
    /\ UNCHANGED <<pending, max_bytes, ttl_days, now, index, remote, everPut, retryVars, backendVars, raceVars, handleVars, apiVars>>

\* A day passes.
Tick ==
    /\ now < MaxDays * SecondsPerDay
    /\ now' = now + SecondsPerDay
    /\ UNCHANGED <<pending, max_bytes, ttl_days, index, files, remote, everPut, res, retryVars, backendVars, raceVars, handleVars, apiVars>>


\* ------------------------------------------------- open_text, cached path

\* What the backend reports about the object: the headers of a GET response
\* (_get_response_metadata, _get_content_length) and of a HEAD response
\* (_headers_to_metadata).
RemoteMeta(key) ==
    [etag |-> remote[key].etag, last_modified |-> remote[key].last_modified,
     content_length |-> remote[key].size]

\* A backend of the Backend protocol that is neither of the module's own.
AnyBackend == "Backend"

\* What head_metadata does at revalidation: it reports the object's
\* metadata, the backend has no such method, it returns {}, or it raises.
\* S3HttpBackend has the method; the FakeBackend of the tests has not.
HeadOutcomes(backend) ==
    IF backend = "FakeBackend" THEN {"unsupported"}
    ELSE IF backend = "S3HttpBackend" THEN {"all", "empty", "raises"}
    ELSE {"all", "unsupported", "empty", "raises"}

\* _remote_metadata: {} when the backend has no head_metadata, and when
\* head_metadata returns nothing or raises.
RemoteMetadata(key, head) ==
    IF head = "unsupported" THEN NoMeta
    ELSE IF head = "raises" THEN NoMeta
    ELSE IF head = "empty" THEN NoMeta
    ELSE RemoteMeta(key)

CacheEntryValidStrict(entry, meta) ==
    \/ meta = NoMeta
    \/ /\ entry.etag = meta.etag
       /\ entry.last_modified = meta.last_modified
       /\ entry.content_length = meta.content_length

CacheEntryValidFailClosed(entry, meta) ==
    /\ meta # NoMeta
    /\ ~(entry.etag # None /\ meta.etag # None /\ entry.etag # meta.etag)
    /\ ~(entry.last_modified # None /\ meta.last_modified # None
            /\ entry.last_modified # meta.last_modified)
    /\ ~(entry.content_length # None /\ meta.content_length # None
            /\ entry.content_length # meta.content_length)

\* _cache_entry_valid(backend, uri, entry), given the metadata
\* _remote_metadata returned.
CacheEntryValid(entry, meta) ==
    IF meta = NoMeta THEN TRUE
    ELSE IF entry.etag # None /\ meta.etag # None /\ entry.etag # meta.etag THEN FALSE
    ELSE IF entry.last_modified # None /\ meta.last_modified # None
            /\ entry.last_modified # meta.last_modified THEN FALSE
    ELSE IF entry.content_length # None /\ meta.content_length # None
            /\ entry.content_length # meta.content_length THEN FALSE
    ELSE TRUE

\* How a recorded metadata field and the reported one compare: "absent"
\* when either is missing.
Compare(recorded, reported) ==
    IF recorded = None \/ reported = None THEN "absent"
    ELSE IF recorded = reported THEN "same" ELSE "differs"
CompareAll(entry, meta) ==
    <<Compare(entry.etag, meta.etag), Compare(entry.last_modified, meta.last_modified),
      Compare(entry.content_length, meta.content_length)>>

\* The content of a file whose byte count is not the object's.
Garbled == 9

\* What one open_binary call of a download attempt meets for the object u:
\* the object is reported missing, the backend fails, or a response arrives,
\* with or without headers, whose body is one byte short, complete or one
\* byte too long, or whose body raises when it is read ("broken").
Responses(u) ==
    {[open |-> "notfound", hdr |-> "none", received |-> 0],
     [open |-> "error", hdr |-> "none", received |-> 0],
     [open |-> "broken", hdr |-> "all", received |-> 0]}
    \cup {[open |-> "ok", hdr |-> h, received |-> n] :
             h \in {"all", "none"}, n \in {u.size - 1, u.size, u.size + 1}}

\* The responses of the cache specification: complete, with or without
\* headers, or a backend failure.
PlainResponses(u) ==
    {[open |-> "error", hdr |-> "none", received |-> 0],
     [open |-> "ok", hdr |-> "all", received |-> u.size],
     [open |-> "ok", hdr |-> "none", received |-> u.size]}

\* _get_content_length(response)
GetContentLength(key, resp) ==
    IF resp.hdr = "all" THEN remote[key].size ELSE NoLength

\* "content_length is not None and bytes_read < content_length"
IsTruncated(content_length, bytes_read) ==
    content_length # NoLength /\ bytes_read < content_length

\* The error of a download cut short.
TruncatedError == "OSError: Downloaded fewer bytes than expected"

\* The error response.read raises when the connection breaks in the body.
ReadError == "ConnectionResetError"

\* One pass of the for loop of _download_to_temp / _download_with_retries:
\* open_binary, copy the body to a temp file, compare the byte count with
\* the declared length.  A cut-short temp file is removed.  "left" tells
\* whether the attempt failed with its mkstemp file still on disk: os.remove
\* is called in the cut-short branch only, so an exception of response.read
\* reaches "except Exception" with the file in place.
Attempt(key, resp) ==
    IF resp.open = "notfound"
    THEN [ok |-> FALSE, err |-> "FileNotFoundError", declared |-> NoLength, received |-> 0,
          left |-> FALSE]
    ELSE IF resp.open = "error"
    THEN [ok |-> FALSE, err |-> "RuntimeError", declared |-> NoLength, received |-> 0,
          left |-> FALSE]
    ELSE LET content_length == GetContentLength(key, resp)
         IN IF resp.open = "broken"
            THEN [ok |-> FALSE, err |-> ReadError, declared |-> content_length,
                  received |-> resp.received, left |-> TRUE]
            ELSE IF IsTruncated(content_length, resp.received)
            THEN [ok |-> FALSE, err |-> TruncatedError, declared |-> content_length,
                  received |-> resp.received, left |-> FALSE]
            ELSE [ok |-> TRUE, err |-> "", declared |-> content_length,
                  received |-> resp.received, left |-> FALSE]

\* The retry budgets open_text is called with in the download loop.
RetryBudgets == {0, 1}

\* No open_text call is waiting.  A waiting call holds the backend it
\* selected, the entry get returned, what its download attempts did so far
\* and the result it is building; pc tells what it waits for: the answer
\* of head_metadata ("head") or the response of open_binary ("fetch").
NoPending ==
    [pc |-> "idle", backend |-> "", entry |-> NoEntry, tried |-> <<>>, res |-> NoRes]

\* While a call is waiting the last result is that of no finished call.
Waiting(base) ==
    [NoRes EXCEPT !.op = "waiting", !.key = base.key, !.api = base.api, !.uri = base.uri]

\* The first attempt that met a missing object; 0 when there is none.
FirstNotFound(tried) ==
    LET nf == {i \in 1..Len(tried) : tried[i].open = "notfound"}
    IN IF nf = {} THEN 0 ELSE CHOOSE i \in nf : \A j \in nf : i <= j

\* Every attempt got a response that declared more bytes than it delivered.
AllCut(tried) == \A i \in 1..Len(tried) : tried[i].cut

\* The temp files (.partial in the cache directory, .tmp otherwise) that the
\* failed attempts of a download loop leave on disk.
LeftBehind(tried) == Cardinality({i \in 1..Len(tried) : ~tried[i].ok /\ tried[i].left})

\* _open_text_cached(backend, uri, ...), lines 117-119: a CacheStore on the
\* directory and get.  With an entry and no refresh asked for the call goes
\* on to _cache_entry_valid, whose head_metadata is a request to the remote
\* end; otherwise to the download, whose open_binary is one.
CachedGet(backend, key, refresh, r, base) ==
    LET g == StoreGet(Disk, key)
        asked == g.found /\ ~refresh
    IN [d |-> g.d,
        call |-> [pc |-> IF asked THEN "head" ELSE "fetch", backend |-> backend,
                  entry |-> g.entry, tried |-> <<>>,
                  res |-> [base EXCEPT !.op = "open", !.key = key, !.refresh = refresh,
                                       !.r = r, !.hit = g.found,
                                       !.lost = FileLost(Disk, key)]]]

\* _open_text_cached, lines 120-123, when head_metadata has answered:
\* _cache_entry_valid on the metadata; a valid entry is served by opening
\* its path, which raises when the file is no longer there; a stale one is
\* deleted and the call goes on to the download.
Revalidated(c, head) ==
    LET key == c.res.key
        meta == RemoteMetadata(key, head)
        valid == CacheEntryValid(c.entry, meta)
        b == [c.res EXCEPT !.valid = valid, !.nometa = (meta = NoMeta),
                           !.cmp = CompareAll(c.entry, meta),
                           !.want = remote[key].ver]
    IN IF ~valid
       THEN [done |-> FALSE, d |-> StoreDelete(Disk, key),
             call |-> [c EXCEPT !.pc = "fetch", !.res = b], res |-> b]
       ELSE IF files[c.entry.path] = NoFile
       THEN [done |-> TRUE, d |-> Disk, call |-> NoPending,
             res |-> [b EXCEPT !.kind = "raise", !.err = "FileNotFoundError",
                               !.gone = TRUE]]
       ELSE [done |-> TRUE, d |-> Disk, call |-> NoPending,
             res |-> [b EXCEPT !.kind = "handle", !.ver = files[c.entry.path]]]

\* One pass of the for loop of _download_to_temp / _download_with_retries
\* when open_binary has answered: "except Exception as exc: last_error =
\* exc; continue" leads every error of an attempt to the next attempt,
\* max(0, retries) + 1 attempts in all.  On the cached path the accepted
\* file is put and the path put returned is opened (api.py:125-130); in
\* download mode the temp file is opened.
Attempted(c, resp) ==
    LET key == c.res.key
        a == Attempt(key, resp)
        tried == Append(c.tried,
                        [open |-> resp.open, ok |-> a.ok, left |-> a.left,
                         cut |-> (resp.open = "ok" /\ resp.hdr = "all"
                                     /\ resp.received < remote[key].size)])
        b == [c.res EXCEPT !.fetched = Len(tried), !.declared = a.declared,
                           !.received = a.received, !.nf = FirstNotFound(tried),
                           !.cut = AllCut(tried), !.left = LeftBehind(tried),
                           !.want = remote[key].ver]
        ver == IF a.received = remote[key].size THEN remote[key].ver ELSE Garbled
        meta == IF resp.hdr = "all" THEN RemoteMeta(key) ELSE NoMeta
    IN IF ~a.ok /\ Len(tried) < Max(0, c.res.r) + 1
       THEN [done |-> FALSE, d |-> Disk, call |-> [c EXCEPT !.tried = tried], res |-> b]
       ELSE IF ~a.ok
       THEN [done |-> TRUE, d |-> Disk, call |-> NoPending,
             res |-> [b EXCEPT !.kind = "raise", !.err = a.err]]
       ELSE IF c.res.op = "download"
       THEN [done |-> TRUE, d |-> Disk, call |-> NoPending,
             res |-> [b EXCEPT !.dlok = TRUE, !.kind = "handle", !.ver = ver]]
       ELSE LET p == StorePut(Disk, key, a.received, ver, meta)
                b2 == [b EXCEPT !.dlok = TRUE]
            IN IF p.d.files[p.path] = NoFile
               THEN [done |-> TRUE, d |-> p.d, call |-> NoPending,
                     res |-> [b2 EXCEPT !.kind = "raise", !.err = "FileNotFoundError"]]
               ELSE [done |-> TRUE, d |-> p.d, call |-> NoPending,
                     res |-> [b2 EXCEPT !.kind = "handle", !.ver = p.d.files[p.path]]]

\* _open_text_downloaded(backend, uri, retries=r): the call goes to the
\* download loop; the cache directory is not touched.
DownloadBegin(backend, key, r, base) ==
    [pc |-> "fetch", backend |-> backend, entry |-> NoEntry, tried |-> <<>>,
     res |-> [base EXCEPT !.op = "download", !.key = key, !.r = r]]

\* _open_text_cached(backend, uri, retries=r, cache_refresh=refresh) for a
\* remote uri is called: up to the first request to the remote end.
OpenTextCached(backend, key, refresh, r) ==
    /\ pending.pc = "idle"
    /\ \E o \in {CachedGet(backend, key, refresh, r, NoRes)} :
        /\ index' = o.d.index
        /\ files' = o.d.files
        /\ pending' = o.call
        /\ res' = Waiting(o.call.res)
    /\ UNCHANGED <<max_bytes, ttl_days, now, remote, everPut, retryVars, backendVars, raceVars, handleVars, apiVars>>

\* head_metadata has answered the waiting call.
Revalidate(head) ==
    /\ pending.pc = "head"
    /\ head \in HeadOutcomes(pending.backend)
    /\ \E o \in {Revalidated(pending, head)} :
        /\ index' = o.d.index
        /\ files' = o.d.files
        /\ pending' = o.call
        /\ res' = IF o.done THEN o.res ELSE res
    /\ UNCHANGED <<max_bytes, ttl_days, now, remote, everPut, retryVars, backendVars, raceVars, handleVars, apiVars>>

\* open_binary has answered the download attempt of the waiting call for
\* key with resp.
DownloadAttempt(key, resp) ==
    /\ pending.pc = "fetch"
    /\ pending.res.key = key
    /\ \E o \in {Attempted(pending, resp)} :
        /\ index' = o.d.index
        /\ files' = o.d.files
        /\ pending' = o.call
        /\ res' = IF o.done THEN o.res ELSE res
    /\ UNCHANGED <<max_bytes, ttl_days, now, remote, everPut, retryVars, backendVars, raceVars, handleVars, apiVars>>

\* The values DIG_OPEN_DATA_CACHE_FORCE is set to: unset or empty, and a
\* truthy value in upper case.
EnvValues == {"", "TRUE"}

\* str.lower on the values of the environment variable.
Lower(value) == IF value = "TRUE" THEN "true" ELSE value

\* _cache_force_env
CacheForceEnv(value) == Lower(value) \in {"1", "true", "yes"}

\* open_text(uri, cache=config, cache_refresh=..., retries=r) on a remote
\* uri: the environment flag forces the refresh, then _open_text_cached.
OpenText(key, cache_refresh, env, r) ==
    OpenTextCached(AnyBackend, key, cache_refresh \/ CacheForceEnv(env), r)

\* open_text(uri, download=True, retries=r) with no cache configured:
\* _open_text_downloaded, which downloads to a temp file and opens it.
OpenTextDownloaded(key, r) ==
    /\ pending.pc = "idle"
    /\ pending' = DownloadBegin(AnyBackend, key, r, NoRes)
    /\ res' = Waiting(pending'.res)
    /\ UNCHANGED <<max_bytes, ttl_days, now, index, files, remote, everPut, retryVars, backendVars, raceVars, handleVars, apiVars>>

\* The uploads of a remote object: the first one; the same content uploaded
\* again (same ETag, newer Last-Modified); new content of the same size; new
\* content of the largest size.
FirstUpload == [ver |-> 1, etag |-> 1, last_modified |-> 1, size |-> 1]
Uploads ==
    {FirstUpload,
     [ver |-> 1, etag |-> 1, last_modified |-> 2, size |-> 1],
     [ver |-> 2, etag |-> 2, last_modified |-> 2, size |-> 1],
     [ver |-> 2, etag |-> 2, last_modified |-> 2, size |-> MaxSize]}

\* The remote object is uploaded again.
RemoteUpdate(key) ==
    /\ \E u \in Uploads :
          /\ u # remote[key]
          /\ remote' = [remote EXCEPT ![key] = u]
    /\ UNCHANGED <<pending, max_bytes, ttl_days, now, index, files, everPut, res, retryVars, backendVars, raceVars, handleVars, apiVars>>

\* ------------------------------------------------- S3 backend (backends.py)

\* Largest per-candidate retry count of S3HttpBackend(retries=...).
MaxBackendRetries == 1

\* The s3 URIs requested: an object and a bare bucket.
S3Uris == {"s3://b/x", "s3://b"}

\* urllib.parse.urlparse(uri).netloc
Bucket(uri) == "b"
\* urllib.parse.quote(parsed.path.lstrip("/"), safe="/")
QuotedKey(uri) == IF uri = "s3://b/x" THEN "x" ELSE ""

S3UriToHttpsUrls(uri) ==
    LET bucket == Bucket(uri)
        quoted_key == QuotedKey(uri)
    IN  IF quoted_key # ""
        THEN <<"https://" \o bucket \o ".s3.amazonaws.com/" \o quoted_key,
               "https://s3.amazonaws.com/" \o bucket \o "/" \o quoted_key,
               "https://" \o bucket \o ".s3.us-east-1.amazonaws.com/" \o quoted_key,
               "https://s3.us-east-1.amazonaws.com/" \o bucket \o "/" \o quoted_key>>
        ELSE <<"https://" \o bucket \o ".s3.amazonaws.com/",
               "https://s3.amazonaws.com/" \o bucket \o "/",
               "https://" \o bucket \o ".s3.us-east-1.amazonaws.com/",
               "https://s3.us-east-1.amazonaws.com/" \o bucket \o "/">>

\* How many candidate endpoints an s3 URI has.
NumCandidates == Len(S3UriToHttpsUrls("s3://b/x"))

\* urlopen raised urllib.error.URLError (no HTTP status): a connection error.
URLError == 0
RetryableCodesAnyError == {403, 429, 500, 502, 503, 504}

\* The HTTP statuses open_binary sleeps on and retries.
RetryableCodes == {429, 500, 502, 503, 504}

\* How one endpoint answers the successive requests sent to it; the last
\* answer repeats.
Scripts ==
    {<<200>>, <<204>>, <<404>>, <<403>>, <<503>>, <<URLError>>,
     <<503, 200>>, <<URLError, 200>>, <<503, 404>>}

\* The answer of candidate u to its request number attempt (from 0).
Respond(eps, u, attempt) == eps[u][Min(attempt + 1, Len(eps[u]))]

\* urlopen returns the response instead of raising HTTPError.
Success(code) == code \in 200..299

IsNotFoundNever(code) == FALSE

\* exc.code == 404
IsNotFound(code) == code = 404

NoNextCandidate(u) == NumCandidates + 1

\* for url in urls: the candidate after candidate u.
NextCandidate(u) == u + 1

\* No backend call.  A call holds the candidate u and the attempt it is at
\* and what it waits for: the answer of urlopen ("request") or the end of
\* time.sleep ("sleep"); requests, codes and sleeps are the requests
\* answered so far, their statuses and the waits made between them.
NoBackendCall ==
    [pc |-> "idle", op |-> "none", uri |-> "", retries |-> 0, kind |-> "none",
     err |-> NoError, url |-> "", requests |-> <<>>, codes |-> <<>>, sleeps |-> <<>>,
     u |-> 0, attempt |-> 0]

\* 2**attempt
RECURSIVE Pow2(_)
Pow2(n) == IF n <= 0 THEN 1 ELSE 2 * Pow2(n - 1)

\* time.sleep(self._backoff * (2**attempt)): the wait before the next
\* attempt at the same candidate, in units of the backend's backoff.
Sleep(acc, attempt) == [acc EXCEPT !.pc = "sleep", !.sleeps = Append(@, Pow2(attempt))]

\* time.sleep has returned: "attempt += 1; continue" sends the next request
\* to the same candidate.
Wake(acc) == [acc EXCEPT !.pc = "request", !.attempt = @ + 1]

\* for url in urls: the request to candidate u is sent, or, with no
\* candidate left, the call raises.
Advance(acc, urls, u, raised) ==
    IF u > Len(urls)
    THEN [acc EXCEPT !.pc = "idle", !.kind = "raise", !.err = raised]
    ELSE [acc EXCEPT !.pc = "request", !.u = u, !.attempt = 0]

\* The call returns or raises.
Finished(acc, kind, err, url) ==
    [acc EXCEPT !.pc = "idle", !.kind = kind, !.err = err, !.url = url]

\* S3HttpBackend.open_binary, one pass of "while True" in the loop over
\* the candidates: urlopen has answered the request of call c.
OpenBinaryRequest(c, eps) ==
    LET urls == S3UriToHttpsUrls(c.uri)
        code == Respond(eps, c.u, c.attempt)
        sent == [c EXCEPT !.requests = Append(@, urls[c.u]),
                          !.codes = Append(@, code)]
    IN  IF code = URLError
        THEN IF c.attempt < c.retries
             THEN Sleep(sent, c.attempt)
             ELSE Advance(sent, urls, NextCandidate(c.u), "RuntimeError")
        ELSE IF Success(code)
        THEN Finished(sent, "response", NoError, urls[c.u])
        ELSE IF IsNotFound(code)
        THEN Finished(sent, "raise", "FileNotFoundError", urls[c.u])
        ELSE IF c.attempt < c.retries /\ code \in RetryableCodes
        THEN Sleep(sent, c.attempt)
        ELSE Advance(sent, urls, NextCandidate(c.u), "RuntimeError")

\* S3HttpBackend.open_binary(uri) is called: the first request is sent.
OpenBinary(uri, backend_retries) ==
    Advance([NoBackendCall EXCEPT !.op = "open_binary", !.uri = uri,
                                  !.retries = Max(0, backend_retries)],
            S3UriToHttpsUrls(uri), 1, "RuntimeError")

\* S3HttpBackend.exists, one pass of the loop: one HEAD request per
\* candidate, which urlopen has answered.
ExistsRequest(c, eps) ==
    LET urls == S3UriToHttpsUrls(c.uri)
        code == Respond(eps, c.u, 0)
        sent == [c EXCEPT !.requests = Append(@, urls[c.u]),
                          !.codes = Append(@, code)]
    IN  IF code = URLError
        THEN Advance(sent, urls, NextCandidate(c.u), "RuntimeError")
        ELSE IF Success(code)
        THEN Finished(sent, IF code = 200 THEN "true" ELSE "false", NoError, urls[c.u])
        ELSE IF IsNotFound(code)
        THEN Finished(sent, "false", NoError, urls[c.u])
        ELSE Advance(sent, urls, NextCandidate(c.u), "RuntimeError")

\* S3HttpBackend.exists(uri) is called: the first request is sent.
Exists(uri, backend_retries) ==
    Advance([NoBackendCall EXCEPT !.op = "exists", !.uri = uri,
                                  !.retries = Max(0, backend_retries)],
            S3UriToHttpsUrls(uri), 1, "RuntimeError")

\* S3HttpBackend.head_metadata, one pass of the loop: one HEAD request per
\* candidate; any error, a 404 included, leads to the next candidate; a
\* response of any 2xx status yields its metadata; when every candidate
\* failed the last HTTPError or URLError is raised as it is.
HeadMetadataRequest(c, eps) ==
    LET urls == S3UriToHttpsUrls(c.uri)
        code == Respond(eps, c.u, 0)
        sent == [c EXCEPT !.requests = Append(@, urls[c.u]),
                          !.codes = Append(@, code)]
    IN  IF Success(code)
        THEN Finished(sent, "metadata", NoError, urls[c.u])
        ELSE Advance(sent, urls, NextCandidate(c.u),
                     IF code = URLError THEN "URLError" ELSE "HTTPError")

\* S3HttpBackend.head_metadata(uri) is called: the first request is sent.
HeadMetadata(uri, backend_retries) ==
    Advance([NoBackendCall EXCEPT !.op = "head_metadata", !.uri = uri,
                                  !.retries = Max(0, backend_retries)],
            S3UriToHttpsUrls(uri), 1, "")

\* urlopen has answered the request of call c.
Requested(c, eps) ==
    IF c.op = "open_binary" THEN OpenBinaryRequest(c, eps)
    ELSE IF c.op = "exists" THEN ExistsRequest(c, eps)
    ELSE HeadMetadataRequest(c, eps)

\* The call c run to its end against endpoints that do not change.
RECURSIVE RunToEnd(_, _)
RunToEnd(c, eps) ==
    IF c.pc = "idle" THEN c
    ELSE IF c.pc = "sleep" THEN RunToEnd(Wake(c), eps)
    ELSE RunToEnd(Requested(c, eps), eps)

\* backend.open_binary(uri) on a backend built with S3HttpBackend(retries=...).
S3OpenBinary(uri, backend_retries) ==
    /\ s3.pc = "idle"
    /\ s3' = OpenBinary(uri, backend_retries)
    /\ UNCHANGED <<endpoints, retryVars, cacheVars, raceVars, handleVars, apiVars>>

\* backend.exists(uri) on a backend built with S3HttpBackend(retries=...).
S3Exists(uri, backend_retries) ==
    /\ s3.pc = "idle"
    /\ s3' = Exists(uri, backend_retries)
    /\ UNCHANGED <<endpoints, retryVars, cacheVars, raceVars, handleVars, apiVars>>

\* backend.head_metadata(uri) on a backend built with
\* S3HttpBackend(retries=...).
S3HeadMetadata(uri, backend_retries) ==
    /\ s3.pc = "idle"
    /\ s3' = HeadMetadata(uri, backend_retries)
    /\ UNCHANGED <<endpoints, retryVars, cacheVars, raceVars, handleVars, apiVars>>

\* urlopen returns or raises in the call that waits for it.
S3Request ==
    /\ s3.pc = "request"
    /\ s3' = Requested(s3, endpoints)
    /\ UNCHANGED <<endpoints, retryVars, cacheVars, raceVars, handleVars, apiVars>>

\* time.sleep returns in the call that waits for it.
S3Wake ==
    /\ s3.pc = "sleep"
    /\ s3' = Wake(s3)
    /\ UNCHANGED <<endpoints, retryVars, cacheVars, raceVars, handleVars, apiVars>>

\* ------------------------------ processes sharing one cache directory

\* The processes; each runs _open_text_cached on the shared directory, and
\* process p downloads content p.
Procs == {1, 2}

\* How a call meets a cache entry it found: the remote metadata agree
\* ("use"), it is asked to refresh (cache_refresh=True), or the remote
\* object reports another ETag ("stale").
Modes == {"use", "refresh", "stale"}

NoPartial == [key |-> "", ver |-> 0, size |-> 0, written |-> 0]

\* What an object file holds when a file that was not written to its end
\* was moved to its path.
TornFile == 8

NoProc ==
    [pc |-> "idle", op |-> "none", key |-> "", size |-> 0, ver |-> 0,
     mem |-> <<>>, queue |-> <<>>, entry |-> NoEntry, target |-> <<>>,
     itmp |-> <<>>, ret |-> "", after |-> "", err |-> "", whole |-> TRUE,
     seen |-> NoFile, mode |-> "", put |-> FALSE, at |-> ""]

\* The process has returned from its call: only the outcome is kept: the
\* error and the step that raised it, whether the call got as far as put,
\* and what it read.
Returned(pr, err) ==
    [NoProc EXCEPT !.pc = "done", !.op = pr.op, !.key = pr.key, !.size = pr.size,
                   !.ver = pr.ver, !.err = err, !.whole = pr.whole,
                   !.seen = pr.seen, !.put = pr.put,
                   !.at = IF err = "" THEN "" ELSE pr.pc]

\* Continue process pr at pc; "done" returns from the call.
Goto(pr, pc) == IF pc = "done" THEN Returned(pr, "") ELSE [pr EXCEPT !.pc = pc]

IndexWriteInPlace == "index"

\* _write_index: the file the records are written to (tempfile.mkstemp).
IndexWritePath == "temp"

RaceFrame == UNCHANGED <<pending, max_bytes, ttl_days, now, remote, everPut, res,
                         retryVars, backendVars, handleVars, apiVars>>

ConstructKeepsPartials(p, mode, key, size) ==
    /\ procs[p].pc = "idle"
    /\ procs' = [procs EXCEPT ![p] =
                    [NoProc EXCEPT !.pc = "g_load", !.op = "open", !.key = key,
                                   !.size = size, !.ver = p, !.mode = mode]]
    /\ UNCHANGED <<index, files, torn, partials>>
    /\ RaceFrame

\* _open_text_cached(backend, key, cache_refresh = (mode = "refresh")) on a
\* remote object of the given size: CacheStore(cache_config), whose
\* _cleanup_partials removes every .partial file of the objects directory.
\* The call goes on with cache_store.get(key).
Construct(p, mode, key, size) ==
    /\ procs[p].pc = "idle"
    /\ partials' = [q \in Procs |-> NoPartial]
    /\ procs' = [procs EXCEPT ![p] =
                    [NoProc EXCEPT !.pc = "g_load", !.op = "open", !.key = key,
                                   !.size = size, !.ver = p, !.mode = mode]]
    /\ UNCHANGED <<index, files, torn>>
    /\ RaceFrame

\* _download_to_temp: tempfile.mkstemp(suffix=".partial", dir=cache_dir)
\* and os.close(fd)
DlCreate(p) ==
    /\ procs[p].pc = "dl_create"
    /\ partials' = [partials EXCEPT ![p] =
                       [key |-> procs[p].key, ver |-> procs[p].ver,
                        size |-> procs[p].size, written |-> 0]]
    /\ procs' = [procs EXCEPT ![p].pc = "dl_open"]
    /\ UNCHANGED <<index, files, torn>>
    /\ RaceFrame

\* _download_to_temp: open(path, "wb") truncates the file, or creates it
\* again when it has been removed meanwhile.
DlOpen(p) ==
    /\ procs[p].pc = "dl_open"
    /\ partials' = [partials EXCEPT ![p] =
                       [key |-> procs[p].key, ver |-> procs[p].ver,
                        size |-> procs[p].size, written |-> 0]]
    /\ procs' = [procs EXCEPT ![p].pc = "dl_write"]
    /\ UNCHANGED <<index, files, torn>>
    /\ RaceFrame

\* _download_to_temp: the chunks are written to the open file, which may
\* have been unlinked meanwhile, and the file is closed.
DlWrite(p) ==
    /\ procs[p].pc = "dl_write"
    /\ partials' = IF partials[p] = NoPartial THEN partials
                   ELSE [partials EXCEPT ![p].written = partials[p].size]
    /\ procs' = [procs EXCEPT ![p].pc = "put_replace"]
    /\ UNCHANGED <<index, files, torn>>
    /\ RaceFrame

\* put: os.replace(source_path, dest_path)
PutReplace(p) ==
    /\ procs[p].pc = "put_replace"
    /\ IF partials[p] = NoPartial
       THEN /\ procs' = [procs EXCEPT ![p] =
                            Returned([procs[p] EXCEPT !.put = TRUE], "FileNotFoundError")]
            /\ UNCHANGED <<files, partials>>
       ELSE /\ files' = [files EXCEPT ![procs[p].key] =
                            IF partials[p].written = partials[p].size
                            THEN partials[p].ver ELSE TornFile]
            /\ partials' = [partials EXCEPT ![p] = NoPartial]
            /\ procs' = [procs EXCEPT ![p].pc = "put_load", ![p].put = TRUE]
    /\ UNCHANGED <<index, torn>>
    /\ RaceFrame

\* The ETag header of the response that delivers content ver; the
\* responses carry no Last-Modified and no Content-Length.
ResponseEtag(ver) == ver

\* What head_metadata reports for the object of an entry the call found:
\* the ETag of the content the entry was made from, or in mode "stale" the
\* ETag of another content.
HeadEtag(mode, entry) ==
    [NoMeta EXCEPT !.etag = IF mode = "stale" THEN ResponseEtag(entry.etag + 1)
                            ELSE entry.etag]

\* put: entry = {key, path, size, last_access}; entry.update(metadata);
\* index = self._load_index(); index[key] = entry; then _write_index
PutLoad(p) ==
    /\ procs[p].pc = "put_load"
    /\ LET pr == procs[p]
           entry == [NoEntry EXCEPT !.key = pr.key, !.path = pr.key,
                                    !.size = pr.size, !.last_access = now,
                                    !.etag = ResponseEtag(pr.ver)]
           mem == DictSet(LoadIndex(Disk), entry)
       IN procs' = [procs EXCEPT ![p] =
                       [pr EXCEPT !.pc = "w_begin", !.mem = mem, !.target = mem,
                                  !.ret = "evict", !.whole = pr.whole /\ ~torn]]
    /\ UNCHANGED <<index, files, partials, torn>>
    /\ RaceFrame

\* _write_index: open(path, "w") creates or truncates the file written to.
WBegin(p) ==
    /\ procs[p].pc = "w_begin"
    /\ procs' = [procs EXCEPT ![p].pc = "w_fill", ![p].itmp = <<>>]
    /\ IF IndexWritePath = "temp"
       THEN UNCHANGED <<index, torn>>
       ELSE index' = <<>> /\ torn' = TRUE
    /\ UNCHANGED <<files, partials>>
    /\ RaceFrame

\* _write_index: the records are written and the file is closed.
WFill(p) ==
    /\ procs[p].pc = "w_fill"
    /\ procs' = [procs EXCEPT ![p].pc = "w_replace", ![p].itmp = procs[p].target]
    /\ IF IndexWritePath = "temp"
       THEN UNCHANGED <<index, torn>>
       ELSE index' = procs[p].target /\ torn' = FALSE
    /\ UNCHANGED <<files, partials>>
    /\ RaceFrame

\* _write_index: os.replace(path, self._index_path)
WReplace(p) ==
    /\ procs[p].pc = "w_replace"
    /\ procs' = [procs EXCEPT ![p] =
                    Goto([procs[p] EXCEPT !.target = <<>>, !.itmp = <<>>, !.ret = ""],
                         procs[p].ret)]
    /\ IF IndexWritePath = "temp"
       THEN index' = WriteIndex(Disk, procs[p].itmp).index
       ELSE UNCHANGED index
    /\ UNCHANGED <<files, partials, torn>>
    /\ RaceFrame

\* _evict_if_needed: the total of the dict put passed in against the cap.
\* When put returns, _open_text_cached opens the path it returned.
Evict(p) ==
    /\ procs[p].pc = "evict"
    /\ procs' = [procs EXCEPT ![p] =
                    IF Total(procs[p].mem) <= Max(0, max_bytes)
                    THEN [procs[p] EXCEPT !.pc = "g_open"]
                    ELSE [procs[p] EXCEPT !.pc = "de_remove",
                                          !.queue = Tail(SortedByAccess(procs[p].mem)),
                                          !.entry = Head(SortedByAccess(procs[p].mem)),
                                          !.after = "ev_next"]]
    /\ UNCHANGED <<index, files, partials, torn>>
    /\ RaceFrame

\* _delete_entry: os.remove(path) when the path exists.
DeRemove(p) ==
    /\ procs[p].pc = "de_remove"
    /\ LET e == procs[p].entry
       IN files' = IF e.path # "" /\ files[e.path] # NoFile
                   THEN [files EXCEPT ![e.path] = NoFile]
                   ELSE files
    /\ procs' = [procs EXCEPT ![p].pc = "de_load"]
    /\ UNCHANGED <<index, partials, torn>>
    /\ RaceFrame

\* _delete_entry: index = self._load_index(); if key in index: del, write.
DeLoad(p) ==
    /\ procs[p].pc = "de_load"
    /\ LET pr == procs[p]
           idx == LoadIndex(Disk)
           seen == [pr EXCEPT !.whole = pr.whole /\ ~torn]
       IN procs' = [procs EXCEPT ![p] =
                       IF Has(idx, pr.entry.key)
                       THEN [seen EXCEPT !.pc = "w_begin",
                                         !.target = DictDel(idx, pr.entry.key),
                                         !.ret = pr.after]
                       ELSE Goto(seen, pr.after)]
    /\ UNCHANGED <<index, files, partials, torn>>
    /\ RaceFrame

\* _evict_if_needed: the total is summed again over the same dict; the loop
\* goes on to the next entry or ends.
EvNext(p) ==
    /\ procs[p].pc = "ev_next"
    /\ procs' = [procs EXCEPT ![p] =
                    IF Total(procs[p].mem) <= Max(0, max_bytes) \/ procs[p].queue = <<>>
                    THEN [procs[p] EXCEPT !.pc = "g_open"]
                    ELSE [procs[p] EXCEPT !.pc = "de_remove",
                                          !.queue = Tail(procs[p].queue),
                                          !.entry = Head(procs[p].queue)]]
    /\ UNCHANGED <<index, files, partials, torn>>
    /\ RaceFrame

\* get: entry = self._load_index().get(key); on a miss get returns None
\* and _open_text_cached downloads.
GLoad(p) ==
    /\ procs[p].pc = "g_load"
    /\ LET pr == procs[p]
           idx == LoadIndex(Disk)
           seen == [pr EXCEPT !.whole = pr.whole /\ ~torn]
       IN procs' = [procs EXCEPT ![p] =
                       IF Has(idx, pr.key)
                       THEN [seen EXCEPT !.pc = "g_exists", !.entry = Lookup(idx, pr.key)]
                       ELSE [seen EXCEPT !.pc = "dl_create"]]
    /\ UNCHANGED <<index, files, partials, torn>>
    /\ RaceFrame

\* get: the path and expiry tests, leading to _delete_entry, after which
\* get returns None and the object is downloaded, or to _touch.
GExists(p) ==
    /\ procs[p].pc = "g_exists"
    /\ LET pr == procs[p]
       IN procs' = [procs EXCEPT ![p] =
                       IF pr.entry.path = "" \/ files[pr.entry.path] = NoFile
                          \/ Expired(pr.entry)
                       THEN [pr EXCEPT !.pc = "de_remove", !.after = "dl_create"]
                       ELSE [pr EXCEPT !.pc = "t_load"]]
    /\ UNCHANGED <<index, files, partials, torn>>
    /\ RaceFrame

\* _touch: entry["last_access"] = now; index = self._load_index();
\* index[key] = entry; then _write_index.  With the entry get returned,
\* _open_text_cached downloads when cache_refresh is set, opens the cached
\* file when _cache_entry_valid says so, and otherwise calls
\* cache_store.delete and downloads.
TLoad(p) ==
    /\ procs[p].pc = "t_load"
    /\ LET pr == procs[p]
           e == [pr.entry EXCEPT !.last_access = now]
       IN procs' = [procs EXCEPT ![p] =
                       [pr EXCEPT !.pc = "w_begin", !.entry = e,
                                  !.target = DictSet(LoadIndex(Disk), e),
                                  !.ret = IF pr.mode = "refresh" THEN "dl_create"
                                          ELSE IF CacheEntryValid(e, HeadEtag(pr.mode, e))
                                          THEN "g_open"
                                          ELSE "d_load",
                                  !.whole = pr.whole /\ ~torn]]
    /\ UNCHANGED <<index, files, partials, torn>>
    /\ RaceFrame

\* CacheStore.delete(key): entry = self._load_index().get(key), and
\* _delete_entry when there is one; then the download.
DLoad(p) ==
    /\ procs[p].pc = "d_load"
    /\ LET pr == procs[p]
           idx == LoadIndex(Disk)
           seen == [pr EXCEPT !.whole = pr.whole /\ ~torn]
       IN procs' = [procs EXCEPT ![p] =
                       IF Has(idx, pr.key)
                       THEN [seen EXCEPT !.pc = "de_remove", !.entry = Lookup(idx, pr.key),
                                         !.after = "dl_create"]
                       ELSE [seen EXCEPT !.pc = "dl_create"]]
    /\ UNCHANGED <<index, files, partials, torn>>
    /\ RaceFrame

\* _open_text_cached: open(cached_entry["path"], "rb"), or after a put
\* open(cached_path, "rb"), and read the object; the object file of a key
\* is at the path named by the key.
GOpen(p) ==
    /\ procs[p].pc = "g_open"
    /\ LET pr == procs[p]
       IN procs' = [procs EXCEPT ![p] =
                       IF files[pr.key] = NoFile
                       THEN Returned(pr, "FileNotFoundError")
                       ELSE Returned([pr EXCEPT !.seen = files[pr.key]], "")]
    /\ UNCHANGED <<index, files, partials, torn>>
    /\ RaceFrame

\* ------------------------------- open_text / exists: resolution and dispatch

\* A URI is the sequence of its parts: scheme words, ":", "//", a bucket or
\* host, path segments.  Text(u) is the string.
RECURSIVE Text(_)
Text(u) == IF u = <<>> THEN "" ELSE Head(u) \o Text(Tail(u))

SchemeWords == {"s3", "registry", "file", "ftp"}
NetlocWords == {"b"}

\* urllib.parse.urlparse(uri): scheme, netloc and path.
UrlParse(u) ==
    LET has_scheme == Len(u) >= 2 /\ u[1] \in SchemeWords /\ u[2] = ":"
        rest == IF has_scheme THEN SubSeq(u, 3, Len(u)) ELSE u
        has_netloc == rest # <<>> /\ rest[1] = "//"
        after == IF has_netloc THEN Tail(rest) ELSE rest
        netloc == IF has_netloc /\ after # <<>> /\ after[1] \in NetlocWords
                  THEN after[1] ELSE ""
    IN [scheme |-> IF has_scheme THEN u[1] ELSE "",
        netloc |-> netloc,
        path |-> IF netloc # "" THEN Tail(after) ELSE after]

\* resolve_uri
ResolveUri(u) ==
    LET parsed == UrlParse(u)
    IN IF parsed.scheme = "registry"
       THEN <<"s3", ":", "//">>
            \o (IF parsed.netloc = "" THEN <<>> ELSE <<parsed.netloc>>)
            \o parsed.path
       ELSE IF parsed.scheme = "file" THEN parsed.path
       ELSE u

\* The schemes of _BACKENDS after the two register_backend calls of the
\* module (api.py:92-93), with the backend each one selects.
Registered == [s \in {"", "file", "s3"} |-> IF s = "s3" THEN "S3HttpBackend"
                                           ELSE "LocalBackend"]

NoBackend == "ValueError: No backend registered for scheme"

SelectBackendAny(u) == "S3HttpBackend"

\* _select_backend(uri): the backend, or the error raised.
SelectBackend(u) ==
    LET scheme == UrlParse(u).scheme
    IN IF scheme \in DOMAIN backends THEN backends[scheme] ELSE NoBackend

\* The backends a caller registers: one for a scheme of its own, and one
\* that takes over s3 as well.
NewBackends ==
    {[name |-> "FakeBackend", schemes |-> {"ftp"}],
     [name |-> "FakeBackend", schemes |-> {"s3", "ftp"}]}

\* register_backend(backend): every scheme of the backend selects it from
\* now on.
RegisterBackend(b) ==
    /\ backends' = [s \in DOMAIN backends \cup b.schemes |->
                        IF s \in b.schemes THEN b.name ELSE backends[s]]
    /\ backends' # backends
    /\ UNCHANGED <<retryVars, cacheVars, backendVars, raceVars, handleVars>>

\* _is_remote_uri
IsRemoteUri(u) == UrlParse(u).scheme \notin {"", "file"}

\* The URIs open_text and exists are called with.
Uris ==
    {<<"s3", ":", "//", "b", "/x">>,
     <<"registry", ":", "//", "b", "/x">>,
     <<"/x">>,
     <<"file", ":", "//", "/x">>,
     <<"ftp", ":", "//", "b", "/x">>,
     <<"file", ":", "registry", ":", "//", "b", "/x">>,
     <<"file", ":", "file", ":", "x">>}

\* open_text(uri, retries=r, download=..., cache=...): resolve, select the
\* backend, then the cached path, the download path or the direct stream.
\* cached says whether a cache is configured; resp is the answer the
\* backend gives to the open_binary call of the direct stream (for the
\* local backend: the file exists or not).  The cached and the download
\* path go on when the remote end answers.
OpenTextResult(u, cached, download, r, resp) ==
    LET resolved == ResolveUri(u)
        backend == SelectBackend(resolved)
        key == Text(resolved)
        base == [NoRes EXCEPT !.api = "open_text", !.uri = Text(u), !.key = key,
                              !.r = r, !.selected = backend,
                              !.cached = cached, !.download = download]
    IN IF backend = NoBackend
       THEN [d |-> Disk, call |-> NoPending,
             res |-> [base EXCEPT !.op = "select", !.route = "none",
                                  !.kind = "raise", !.err = NoBackend]]
       ELSE IF cached /\ IsRemoteUri(resolved)
       THEN LET o == CachedGet(backend, key, FALSE, r,
                               [base EXCEPT !.route = "cached", !.touched = TRUE])
            IN [d |-> o.d, call |-> o.call, res |-> Waiting(o.call.res)]
       ELSE IF download /\ IsRemoteUri(resolved)
       THEN LET c == DownloadBegin(backend, key, r, [base EXCEPT !.route = "download"])
            IN [d |-> Disk, call |-> c, res |-> Waiting(c.res)]
       ELSE LET opened == IF backend = "LocalBackend"
                          THEN IF resp.open = "ok" THEN "" ELSE "FileNotFoundError"
                          ELSE IF resp.open = "notfound" THEN "FileNotFoundError"
                          ELSE IF resp.open = "error" THEN "RuntimeError"
                          ELSE ""
            IN [d |-> Disk, call |-> NoPending,
                res |-> [base EXCEPT !.op = "direct", !.route = "direct",
                                     !.fetched = 1,
                                     !.kind = IF opened = "" THEN "handle" ELSE "raise",
                                     !.err = opened]]

ApiOpenTextCachesLocal(u, cached, download, r, resp) ==
    /\ pending.pc = "idle"
    /\ \E o \in {OpenTextResult(u, cached, download, r, resp)} :
        LET local == cached /\ o.res.route = "direct" /\ o.res.kind = "handle"
        IN /\ index' = IF local
                       THEN Append(o.d.index, [NoEntry EXCEPT !.key = o.res.key,
                                                              !.path = o.res.key])
                       ELSE o.d.index
           /\ files' = o.d.files
           /\ pending' = o.call
           /\ res' = [o.res EXCEPT !.touched = @ \/ local]
           /\ UNCHANGED <<max_bytes, ttl_days, now, remote, everPut, retryVars,
                          backendVars, raceVars, handleVars, apiVars>>

\* open_text(uri, ...) is called: up to the first request to the remote
\* end on the cached and the download path, to its end otherwise.
ApiOpenText(u, cached, download, r, resp) ==
    /\ pending.pc = "idle"
    /\ \E o \in {OpenTextResult(u, cached, download, r, resp)} :
        /\ index' = o.d.index
        /\ files' = o.d.files
        /\ pending' = o.call
        /\ res' = o.res
        /\ UNCHANGED <<max_bytes, ttl_days, now, remote, everPut, retryVars,
                       backendVars, raceVars, handleVars, apiVars>>

\* exists(uri): resolve, select the backend, backend.exists(resolved).
ApiExists(u, present) ==
    LET resolved == ResolveUri(u)
        backend == SelectBackend(resolved)
        base == [NoRes EXCEPT !.api = "exists", !.uri = Text(u),
                              !.key = Text(resolved), !.selected = backend]
        answer == IF backend = "LocalBackend"
                  THEN (IF present THEN "true" ELSE "false")
                  ELSE IF backend = "S3HttpBackend"
                  THEN RunToEnd(Exists(Text(resolved), 0), endpoints).kind
                  ELSE (IF present THEN "true" ELSE "false")
    IN /\ res' = IF backend = NoBackend
                 THEN [base EXCEPT !.op = "select", !.route = "none",
                                   !.kind = "raise", !.err = NoBackend]
                 ELSE [base EXCEPT !.op = "exists", !.route = "backend",
                                   !.fetched = 1, !.kind = answer]
       /\ UNCHANGED <<pending, max_bytes, ttl_days, now, index, files, remote, everPut,
                      retryVars, backendVars, raceVars, handleVars, apiVars>>

\* ------------------------------------------- handles returned by open_text

\* The handles open_text returns: the decoding stream (ManagedTextIO), the
\* retry wrapper (RetryingTextIO) around it, and the temp-file wrapper
\* (_CleanupTextIO) around it.
HandleKinds == {"ManagedTextIO", "RetryingTextIO", "_CleanupTextIO"}

\* How the close() of a resource behaves: it never raises, raises the first
\* time it is called, or raises every time.
CloseModes == {"never", "once", "always"}

\* dec is the gzip decompressor, raw the binary stream; the BufferedReader
\* is closed when raw is, the TextIOWrapper when the stream it wraps is.
\* stack says whether the ExitStack still holds its callbacks; tmp is the
\* temp file of download mode; log lists the close() calls the last close
\* of the handle made, raised whether it raised.
NoHandle ==
    [kind |-> "none", gz |-> FALSE, dec |-> "absent", raw |-> "closed",
     decFail |-> "never", rawFail |-> "never", stack |-> FALSE, tmp |-> "none",
     closes |-> 0, log |-> <<>>, raised |-> FALSE, changed |-> FALSE,
     bytes |-> <<>>, first |-> 0, read |-> "no", out |-> <<>>]

\* GZIP_MAGIC = b"\x1f\x8b"
GzipMagic == <<31, 139>>

\* gzip.compress: the magic number, the method byte and the deflated body
\* (here: every byte complemented).
Gzip(data) == GzipMagic \o <<8>> \o [i \in 1..Len(data) |-> 255 - data[i]]
\* gzip.GzipFile(fileobj=...).read()
Gunzip(bytes) == [i \in 1..(Len(bytes) - 3) |-> 255 - bytes[i + 3]]

\* The characters of the texts: a, b, line feed and the control character
\* 0x1f.
Chr == (97 :> "a") @@ (98 :> "b") @@ (10 :> "\n") @@ (31 :> "US")

\* io.TextIOWrapper(..., encoding="utf-8").read(): the text, or
\* UnicodeDecodeError.
Decode(bytes) ==
    IF \A i \in 1..Len(bytes) : bytes[i] \in DOMAIN Chr
    THEN [ok |-> TRUE, text |-> [i \in 1..Len(bytes) |-> Chr[bytes[i]]]]
    ELSE [ok |-> FALSE, text |-> <<>>]

\* The texts of the objects, as bytes.
PlainTexts == {<<>>, <<97>>, <<97, 98, 10>>, <<31, 97>>}
\* The binary streams handed to open_text_stream: plain and gzip.
ByteStreams == PlainTexts \cup {Gzip(t) : t \in {<<>>, <<97, 98, 10>>}}
\* How many bytes the first read of the binary stream delivers: one, two,
\* or a full buffer.
FirstReads == {1, 2, 8192}

\* buffered.peek(2)[:2]: at most one read of the binary stream is made, and
\* at most two bytes of what it delivered are looked at.
Peek(bytes, first) == SubSeq(bytes, 1, Min(2, Min(first, Len(bytes))))

\* open_text_stream(binary_stream, encoding), wrapped as open_text does.
NewHandle(kind, bytes, first, decFail, rawFail) ==
    LET gz == Peek(bytes, first) = GzipMagic
    IN [NoHandle EXCEPT !.kind = kind, !.gz = gz,
                        !.dec = IF gz THEN "open" ELSE "absent", !.raw = "open",
                        !.decFail = IF gz THEN decFail ELSE "never",
                        !.rawFail = rawFail, !.stack = TRUE,
                        !.tmp = IF kind = "_CleanupTextIO" THEN "exists" ELSE "none",
                        !.bytes = bytes, !.first = first]

\* handle.read() on a handle not yet read or closed: the whole text.
ReadText ==
    /\ handle.kind # "none"
    /\ handle.closes = 0
    /\ handle.read = "no"
    /\ LET d == IF handle.gz THEN Decode(Gunzip(handle.bytes))
                ELSE Decode(handle.bytes)
       IN handle' = [handle EXCEPT !.read = IF d.ok THEN "text" ELSE "UnicodeDecodeError",
                                   !.out = d.text]
    /\ UNCHANGED <<retryVars, cacheVars, backendVars, raceVars, apiVars>>

\* binary_stream.close()
RawClose(h) ==
    LET h1 == [h EXCEPT !.log = Append(@, "raw")]
    IN IF h1.raw = "closed" THEN h1
       ELSE IF h1.rawFail # "never"
       THEN [h1 EXCEPT !.raised = TRUE,
                       !.rawFail = IF @ = "once" THEN "never" ELSE @]
       ELSE [h1 EXCEPT !.raw = "closed"]

\* io.BufferedReader.close(): closes the raw stream unless it is closed.
BufferedClose(h) ==
    LET h1 == [h EXCEPT !.log = Append(@, "buffered")]
    IN IF h1.raw = "closed" THEN h1 ELSE RawClose(h1)

\* gzip.GzipFile.close(): it does not close the stream it reads.  Its
\* "finally: self.fileobj = None" marks the decompressor closed whether or
\* not the close raised, so a later close does nothing.
DecompressorClose(h) ==
    LET h1 == [h EXCEPT !.log = Append(@, "decompressor")]
    IN IF h1.dec = "closed" THEN h1
       ELSE IF h1.decFail # "never"
       THEN [h1 EXCEPT !.raised = TRUE, !.dec = "closed",
                       !.decFail = IF @ = "once" THEN "never" ELSE @]
       ELSE [h1 EXCEPT !.dec = "closed"]

\* io.TextIOWrapper.close(): closes the stream it wraps unless it is closed.
TextClose(h) ==
    LET h1 == [h EXCEPT !.log = Append(@, "text")]
    IN IF h1.gz
       THEN IF h1.dec = "closed" THEN h1 ELSE DecompressorClose(h1)
       ELSE IF h1.raw = "closed" THEN h1 ELSE BufferedClose(h1)

\* _safe_close(obj): the error of obj.close() is dropped.
SafeClose(h) == [h EXCEPT !.raised = FALSE]

StackCloseForward(h) ==
    IF ~h.stack THEN h
    ELSE LET h1 == SafeClose(RawClose(h))
             h2 == SafeClose(BufferedClose(h1))
             h3 == IF h.gz THEN SafeClose(DecompressorClose(h2)) ELSE h2
         IN [h3 EXCEPT !.stack = FALSE]

\* ExitStack.close(): the callbacks run last registered first (decompressor,
\* buffered reader, binary stream) and are dropped.
StackClose(h) ==
    IF ~h.stack THEN h
    ELSE LET h1 == IF h.gz THEN SafeClose(DecompressorClose(h)) ELSE h
             h2 == SafeClose(BufferedClose(h1))
             h3 == SafeClose(RawClose(h2))
         IN [h3 EXCEPT !.stack = FALSE]

\* ManagedTextIO.close: try text_stream.close() finally stack.close().
ManagedClose(h) ==
    LET t == TextClose(h)
        s == StackClose([t EXCEPT !.raised = FALSE])
    IN [s EXCEPT !.raised = t.raised]

\* RetryingTextIO.close: self._stream.close()
RetryingClose(h) == ManagedClose(h)

CleanupCloseKeepsFile(h) == ManagedClose(h)

\* _CleanupTextIO.close: try inner.close() finally os.remove(path), whose
\* OSError is dropped.
CleanupClose(h) ==
    LET m == ManagedClose(h)
    IN [m EXCEPT !.tmp = IF @ = "exists" THEN "gone" ELSE @]

\* handle.close()
Close ==
    /\ handle.kind # "none"
    /\ handle.closes < MaxCloses
    /\ LET h == [handle EXCEPT !.log = <<>>, !.raised = FALSE]
           c == IF h.kind = "_CleanupTextIO" THEN CleanupClose(h)
                ELSE IF h.kind = "RetryingTextIO" THEN RetryingClose(h)
                ELSE ManagedClose(h)
       IN handle' = [c EXCEPT !.closes = @ + 1,
                              !.changed = <<c.dec, c.raw, c.stack, c.tmp>>
                                          # <<h.dec, h.raw, h.stack, h.tmp>>]
    /\ UNCHANGED <<retryVars, cacheVars, backendVars, raceVars, apiVars>>

\* ------------------------------------------------------- specifications

NoCall ==
    [op |-> "none", size |-> 0, kind |-> "none", text |-> <<>>, err |-> NoError,
     lenBefore |-> 0, opensBefore |-> 0, zeroHit |-> FALSE, resync |-> FALSE,
     retryFailed |-> FALSE, peak |-> 0]

\* No retry handle: the state of the retry variables in the cache
\* specifications.
RetryIdle ==
    /\ retries = 0
    /\ plan = <<>>
    /\ opens = 0
    /\ stream = NewStream([data |-> <<>>, fail_after |-> NoFail, kind |-> "flaky"], 0)
    /\ remaining = 0
    /\ chars_read = 0
    /\ delivered = <<>>
    /\ last = NoCall
    /\ live = {}

\* An empty cache directory.
CacheIdle ==
    /\ max_bytes = 0
    /\ ttl_days = NoTtl
    /\ now = 0
    /\ index = <<>>
    /\ files = [k \in Keys |-> NoFile]
    /\ remote = [k \in Keys |-> FirstUpload]
    /\ everPut = {}
    /\ res = NoRes
    /\ pending = NoPending

\* No handle has been returned.
HandleIdle ==
    /\ handle = NoHandle
    /\ backends = Registered

\* No process is inside a call.
RaceIdle ==
    /\ procs = [p \in Procs |-> NoProc]
    /\ partials = [p \in Procs |-> NoPartial]
    /\ torn = FALSE
    /\ HandleIdle

\* No backend call: the state of the backend variables in the other
\* specifications.
BackendIdle ==
    /\ endpoints = [u \in 1..NumCandidates |-> <<200>>]
    /\ s3 = NoBackendCall
    /\ RaceIdle

\* open_text on the direct path: RetryingTextIO.__init__ has opened the
\* first stream.
InitRetry ==
    /\ retries \in 0..MaxRetries
    /\ plan \in Plans(retries)
    /\ opens = 1
    /\ stream = NewStream(plan[1], 1)
    /\ remaining = Max(0, retries)
    /\ chars_read = 0
    /\ delivered = <<>>
    /\ last = NoCall
    /\ live = {1}
    /\ CacheIdle
    /\ BackendIdle

NextRetry ==
    \/ \E size \in ReadSizes : Read(size)
    \/ \E size \in ReadSizes : Readline(size)
    \/ CloseRetrying

SpecRetry == InitRetry /\ [][NextRetry]_vars


\* A new CacheStore on an empty directory, with its configuration.
InitCache ==
    /\ max_bytes \in 0..MaxCap
    /\ ttl_days \in TtlChoices
    /\ now = 0
    /\ index = <<>>
    /\ files = [k \in Keys |-> NoFile]
    /\ remote = [k \in Keys |-> FirstUpload]
    /\ everPut = {}
    /\ res = NoRes
    /\ pending = NoPending
    /\ RetryIdle
    /\ BackendIdle

NextCache ==
    \/ \E k \in Keys, size \in 1..MaxSize, ver \in Contents : Put(k, size, ver)
    \/ \E k \in Keys : Get(k)
    \/ \E k \in Keys : Delete(k)
    \/ \E k \in Keys : LoseFile(k)
    \/ Tick

SpecCache == InitCache /\ [][NextCache]_vars

\* One process using the store, nothing else touching the directory.
NextStore ==
    \/ \E k \in Keys, size \in 1..MaxSize, ver \in Contents : Put(k, size, ver)
    \/ \E k \in Keys : Get(k)
    \/ \E k \in Keys : Delete(k)
    \/ Tick

SpecStore == InitCache /\ [][NextStore]_vars

\* A new CacheStore used for three objects, one content each, of the
\* smallest or of the largest size.
InitLru ==
    /\ max_bytes \in 0..MaxCap
    /\ ttl_days \in TtlChoices
    /\ now = 0
    /\ index = <<>>
    /\ files = [k \in LruKeys |-> NoFile]
    /\ remote = [k \in Keys |-> FirstUpload]
    /\ everPut = {}
    /\ res = NoRes
    /\ pending = NoPending
    /\ RetryIdle
    /\ BackendIdle

NextLru ==
    \/ \E k \in LruKeys, size \in {1, MaxSize} : Put(k, size, 1)
    \/ \E k \in LruKeys : Get(k)
    \/ Tick

SpecLru == InitLru /\ [][NextLru]_vars

\* An empty cache directory and the remote objects, before the first
\* open_text.
InitOpen ==
    /\ max_bytes \in 0..MaxCap
    /\ ttl_days \in TtlChoices
    /\ now = 0
    /\ index = <<>>
    /\ files = [k \in Keys |-> NoFile]
    /\ remote = [k \in Keys |-> FirstUpload]
    /\ everPut = {}
    /\ res = NoRes
    /\ pending = NoPending
    /\ RetryIdle
    /\ BackendIdle

NextOpen ==
    \/ \E k \in Opened, cache_refresh \in BOOLEAN, env \in EnvValues :
          OpenText(k, cache_refresh, env, 0)
    \/ \E head \in HeadOutcomes(AnyBackend) : Revalidate(head)
    \/ \E k \in Opened : \E resp \in PlainResponses(remote[k]) : DownloadAttempt(k, resp)
    \/ \E k \in Opened : RemoteUpdate(k)
    \/ \E k \in Opened : LoseFile(k)
    \/ Tick

SpecOpen == InitOpen /\ [][NextOpen]_vars

\* The download loop: open_text on a remote uri through the cache and in
\* download mode, with every retry budget and every list of responses.
NextDownload ==
    \/ \E k \in Opened, r \in RetryBudgets : OpenText(k, FALSE, "", r)
    \/ \E k \in Opened, r \in RetryBudgets : OpenTextDownloaded(k, r)
    \/ Revalidate("all")
    \/ \E k \in Opened : \E resp \in Responses(remote[k]) : DownloadAttempt(k, resp)
    \/ \E k \in Opened : RemoteUpdate(k)

\* An empty cache directory large enough for every object, with no TTL.
InitDownload ==
    /\ max_bytes = MaxSize + 1
    /\ ttl_days = NoTtl
    /\ now = 0
    /\ index = <<>>
    /\ files = [k \in Keys |-> NoFile]
    /\ remote = [k \in Keys |-> FirstUpload]
    /\ everPut = {}
    /\ res = NoRes
    /\ pending = NoPending
    /\ RetryIdle
    /\ BackendIdle

SpecDownload == InitDownload /\ [][NextDownload]_vars

\* An S3HttpBackend and the endpoints it talks to, before the first call.
InitBackend ==
    /\ endpoints \in [1..NumCandidates -> Scripts]
    /\ s3 = NoBackendCall
    /\ RetryIdle
    /\ CacheIdle
    /\ RaceIdle

NextBackend ==
    \/ \E uri \in S3Uris, backend_retries \in 0..MaxBackendRetries :
          S3OpenBinary(uri, backend_retries)
    \/ \E uri \in S3Uris, backend_retries \in 0..MaxBackendRetries :
          S3Exists(uri, backend_retries)
    \/ \E uri \in S3Uris, backend_retries \in 0..MaxBackendRetries :
          S3HeadMetadata(uri, backend_retries)
    \/ S3Request
    \/ S3Wake

SpecBackend == InitBackend /\ [][NextBackend]_vars

\* The entry and object a completed put of the other key left behind.
OtherKey == "s3://b/y"
OtherEntry ==
    [NoEntry EXCEPT !.key = OtherKey, !.path = OtherKey, !.size = MaxSize,
                    !.etag = ResponseEtag(1)]

\* A cache directory that is empty or holds the other key, with room for
\* every single object, shared by processes that have not started.
InitRace ==
    /\ max_bytes = MaxSize + 1
    /\ ttl_days = NoTtl
    /\ now = 0
    /\ \/ index = <<>> /\ files = [k \in Keys |-> NoFile]
       \/ /\ index = <<OtherEntry>>
          /\ files = [k \in Keys |-> IF k = OtherKey THEN 1 ELSE NoFile]
    /\ remote = [k \in Keys |-> FirstUpload]
    /\ everPut = {}
    /\ res = NoRes
    /\ pending = NoPending
    /\ RetryIdle
    /\ endpoints = [u \in 1..NumCandidates |-> <<200>>]
    /\ s3 = NoBackendCall
    /\ RaceIdle

NextRace ==
    \E p \in Procs :
        \/ \E mode \in Modes, k \in Keys, size \in 1..MaxSize :
              Construct(p, mode, k, size)
        \/ DlCreate(p)
        \/ DlOpen(p)
        \/ DlWrite(p)
        \/ PutReplace(p)
        \/ PutLoad(p)
        \/ WBegin(p)
        \/ WFill(p)
        \/ WReplace(p)
        \/ Evict(p)
        \/ DeRemove(p)
        \/ DeLoad(p)
        \/ EvNext(p)
        \/ GLoad(p)
        \/ GExists(p)
        \/ TLoad(p)
        \/ DLoad(p)
        \/ GOpen(p)

SpecRace == InitRace /\ [][NextRace]_vars

\* The cache keys of the URIs of Uris once every scheme is registered.
ApiKeys == Keys \cup {"ftp://b/x"}

\* open_text and exists on every kind of URI, with and without a cache and
\* download mode, on a cache directory that starts empty.
NextApi ==
    \/ \E u \in Uris, cached \in BOOLEAN, download \in BOOLEAN, r \in RetryBudgets :
          \E resp \in PlainResponses(remote["s3://b/x"]) :
              ApiOpenText(u, cached, download, r, resp)
    \/ \E head \in HeadOutcomes(pending.backend) : Revalidate(head)
    \/ \E k \in ApiKeys : \E resp \in PlainResponses(remote[k]) : DownloadAttempt(k, resp)
    \/ \E u \in Uris, present \in BOOLEAN : ApiExists(u, present)
    \/ \E b \in NewBackends : RegisterBackend(b)

\* An empty cache directory and the registry the module starts with.
InitApi ==
    /\ max_bytes = MaxSize + 1
    /\ ttl_days = NoTtl
    /\ now = 0
    /\ index = <<>>
    /\ files = [k \in ApiKeys |-> NoFile]
    /\ remote = [k \in ApiKeys |-> FirstUpload]
    /\ everPut = {}
    /\ res = NoRes
    /\ pending = NoPending
    /\ RetryIdle
    /\ BackendIdle

SpecApi == InitApi /\ [][NextApi]_vars

\* open_text has returned a handle of one of its kinds, on a plain or a
\* gzip stream, whose resources close cleanly or not.
InitHandle ==
    /\ \E kind \in HandleKinds, bytes \in ByteStreams, first \in FirstReads,
          decFail \in CloseModes, rawFail \in CloseModes :
          handle = NewHandle(kind, bytes, first, decFail, rawFail)
    /\ RetryIdle
    /\ CacheIdle
    /\ endpoints = [u \in 1..NumCandidates |-> <<200>>]
    /\ s3 = NoBackendCall
    /\ procs = [p \in Procs |-> NoProc]
    /\ partials = [p \in Procs |-> NoPartial]
    /\ torn = FALSE
    /\ backends = Registered

NextHandle == ReadText \/ Close

SpecHandle == InitHandle /\ [][NextHandle]_vars


\* ------------------------------------------- properties of the retry stream

IsPrefix(s, t) == Len(s) <= Len(t) /\ s = SubSeq(t, 1, Len(s))

\* The last call reported end-of-stream: it returned the empty text.
EndReported == last.kind = "text" /\ last.text = <<>>

\* Every stream the factory returns carries the same content.
SameContent == \A i \in 1..Len(plan) : plan[i].data = Content

\* The number of stream failures so far: every replaced stream failed once.
Failures == (opens - 1) + (IF stream.failed THEN 1 ELSE 0)

\* C1: with the same content on every stream and no more failures than the
\* retry budget, the text returned so far is always a prefix of the content,
\* and the whole content once end-of-stream is reported.
C1_ExactlyOnceInOrder ==
    (SameContent /\ Failures <= retries)
        => /\ IsPrefix(delivered, Content)
           /\ EndReported => delivered = Content

\* C30: once a retry of the handle has failed while the new stream was being
\* wound forward, every text a read or readline returns continues the
\* content where the text returned before ended: the text returned so far
\* stays a prefix of the content.
C30_NoWrongOffsetAfterFailedRetry ==
    last.retryFailed => IsPrefix(delivered, Content)

\* The payloads 1..k fail mid-read and payload k+1 is complete.
FirstFail(k) ==
    /\ Len(plan) = k + 1
    /\ \A i \in 1..k : plan[i].kind # "raise" /\ plan[i].fail_after # NoFail
    /\ plan[k + 1].kind # "raise"
    /\ plan[k + 1].data = Content
    /\ plan[k + 1].fail_after = NoFail

\* C6: with retries = r, if the first k <= r streams fail mid-read and
\* stream k+1 is complete, no error reaches the caller, the backend is opened
\* at most k+1 times (exactly k+1 once the first k have failed), and the
\* caller has the full content when end-of-stream is reported.
C6_FullContentAfterKFailures ==
    \A k \in 1..retries :
        FirstFail(k)
            => /\ last.kind # "raise"
               /\ opens <= k + 1
               /\ EndReported => (delivered = Content /\ opens <= k + 1)

\* C7: a read or readline that hits a retryable error with no budget left
\* raises that very error, returns no text and reports no end-of-stream.
C7_ExhaustedRaisesOriginal ==
    last.zeroHit
        => /\ last.kind = "raise"
           /\ last.err = StreamError(stream)
           /\ last.err.type \in RetryErrors
           /\ remaining = 0
           /\ Len(delivered) = last.lenBefore

\* C7 witness: the budget was used up by earlier broken streams and the last
\* stream failed too.
C7_Witness ==
    /\ last.zeroHit
    /\ retries >= 1
    /\ opens = retries + 1
    /\ last.kind = "raise"

\* C8: when the reopened stream ends before the delivered offset is reached,
\* the call raises the resync failure at once: the stream that ended is the
\* last one opened, nothing was returned by the call, and that stream is
\* exhausted, so no later call returns text from it.
C8_ResyncFailureIsFatal ==
    /\ last.resync
        => /\ last.kind = "raise"
           /\ last.err = ResyncError(stream)
           /\ opens = stream.id
           /\ opens > last.opensBefore
           /\ Len(delivered) = last.lenBefore
    /\ (stream.id > 1 /\ stream.fail_after = NoFail /\ Len(stream.data) < chars_read)
        => /\ stream.pos = Len(stream.data)
           /\ last.text = <<>>

\* C8 witness: a resync failure raised while retry budget remains.
C8_Witness ==
    /\ last.resync
    /\ last.kind = "raise"
    /\ remaining > 0
    /\ chars_read > Len(stream.data)

\* C37: the stream factory has been invoked at most retries + 1 times; every
\* invocation after the first has used one unit of the budget, whichever
\* call made it, and the budget is never below 0 nor above retries.
C37_FactoryCallsWithinBudget ==
    /\ opens <= retries + 1
    /\ remaining >= 0
    /\ remaining = Max(0, retries) - (opens - 1)
    /\ last.op # "none" => last.opensBefore <= opens

\* The budget of two was used by two different calls: the last call made
\* the third invocation of the factory, an earlier call the second.
C37_Witness ==
    /\ retries = 2
    /\ opens = 3
    /\ remaining = 0
    /\ last.opensBefore = 2

\* C38: at most one stream the factory returned is open, during every call
\* and after it; it is the current stream; and once the handle is closed
\* none is open.
C38_AtMostOneOpenStream ==
    /\ Cardinality(live) <= 1
    /\ live \subseteq {stream.id}
    /\ last.peak <= 1
    /\ stream.closed => live = {}

\* The handle was closed after a retry had failed while winding forward.
C38_Witness ==
    /\ stream.closed
    /\ last.retryFailed
    /\ opens >= 2
    /\ live = {}

\* ------------------------------------------------ properties of the store

\* The positions of the dict handed to eviction whose entry the put removed.
Evicted == {i \in 1..Len(res.mem) : res.mem[i].key \notin KeysOf(index)}

\* C2: after a put, nothing was evicted if the total was within the cap; no
\* evicted entry was accessed later than a surviving one; and eviction did
\* not go on once the total was within the cap: the total was still over it
\* before some evicted entry was removed.
C2_ExactLRU ==
    res.op = "put"
        => /\ Total(res.mem) <= Max(0, max_bytes) => Evicted = {}
           /\ \A i \in Evicted : \A j \in (1..Len(res.mem)) \ Evicted :
                 res.mem[i].last_access <= res.mem[j].last_access
           /\ Evicted # {}
                 => \E i \in Evicted : Total(index) + res.mem[i].size > Max(0, max_bytes)

\* C3: after a put has returned, the sizes in the persisted index sum to at
\* most the cap.
C3_TotalWithinCap ==
    res.op = "put" => Total(index) <= max_bytes

\* C3 witness: a put that pushed the total of two entries over the cap.
C3_Witness ==
    /\ res.op = "put"
    /\ Len(res.mem) >= 2
    /\ Total(res.mem) > max_bytes
    /\ Total(index) <= max_bytes

\* C5: a get that directly follows the put of its key returns an entry whose
\* path holds the content that was put; a get of a key never put returns
\* absent.
C5_RoundTrip ==
    /\ (res.op = "get" /\ res.afterPut)
          => /\ res.kind = "entry"
             /\ res.ver = res.putVer
             /\ files[res.entry.path] = res.putVer
    /\ (res.op = "get" /\ res.key \notin everPut) => res.kind = "absent"

\* C29: when a put of an entry no larger than the cap has returned, the
\* returned path exists on disk with the content put and a get of the key
\* made at once finds the entry.
C29_PutKeepsOwnEntry ==
    (res.op = "put" /\ res.size <= max_bytes)
        => /\ files[res.key] = res.ver
           /\ Has(index, res.key)
           /\ StoreGet(Disk, res.key).found

\* C36: in a directory only one process uses, after every get, put and
\* delete each key has at most one index entry, every entry's path is the
\* object file named after its key and that file exists, and every object
\* file has an index entry.
C36_IndexMatchesObjects ==
    /\ \A i, j \in 1..Len(index) : index[i].key = index[j].key => i = j
    /\ \A i \in 1..Len(index) :
          /\ index[i].path = StorePut(Disk, index[i].key, 0, 0, NoMeta).path
          /\ files[index[i].path] # NoFile
    /\ \A k \in Keys : files[k] # NoFile => Has(index, k)

\* A key put before has been deleted, or evicted by a put, while the other
\* key is still indexed with its object file.
C36_Witness ==
    /\ res.op \in {"delete", "put"}
    /\ \E k \in everPut : ~Has(index, k) /\ files[k] = NoFile
    /\ \E k \in everPut : Has(index, k) /\ files[k] # NoFile

\* The position of the entry of key in a sequence of entries, 0 if none.
PositionOf(entries, key) ==
    IF \E i \in 1..Len(entries) : entries[i].key = key
    THEN CHOOSE i \in 1..Len(entries) : entries[i].key = key
    ELSE 0

\* C40: a get that returns an entry has set the entry's last access in the
\* persisted index to the time of the get; a get of an entry whose last
\* access is no longer ago than the TTL returns it; and a put's eviction
\* deletes entries in ascending order of last access: whatever it deletes
\* earlier was last accessed no later than what it deletes later, it deletes
\* nothing the index did not hold, and every entry last accessed before the
\* one the preceding get touched is deleted before that entry is.
C40_GetTouchesAndTtlIsIdleTime ==
    /\ (res.op = "get" /\ res.kind = "entry")
          => /\ Has(index, res.key)
             /\ Lookup(index, res.key).last_access = res.at
             /\ res.entry.last_access = res.at
    /\ (/\ res.op = "get" /\ res.had /\ ~res.lost
        /\ ttl_days # NoTtl
        /\ res.age <= ttl_days * SecondsPerDay)
          => res.kind = "entry"
    /\ res.op = "put"
          => /\ \A i \in 1..Len(res.deleted) : \A j \in 1..Len(res.deleted) :
                    i < j => res.deleted[i].last_access <= res.deleted[j].last_access
             /\ \A i \in 1..Len(res.deleted) :
                    /\ Has(res.mem, res.deleted[i].key)
                    /\ Lookup(res.mem, res.deleted[i].key) = res.deleted[i]
                    /\ PositionOf(res.deleted, res.deleted[i].key) = i
             /\ (res.touched_key # "" /\ PositionOf(res.deleted, res.touched_key) > 0)
                    => \A i \in 1..Len(res.mem) :
                          res.mem[i].last_access < Lookup(res.mem, res.touched_key).last_access
                             => /\ PositionOf(res.deleted, res.mem[i].key) > 0
                                /\ PositionOf(res.deleted, res.mem[i].key)
                                      < PositionOf(res.deleted, res.touched_key)

\* Under a TTL of one day, an entry put before another was read by a get two
\* days after the start, which set its last access to that time; the put
\* that followed evicted, and deleted the entry put second, not read since
\* the day before, and only then the entry the get had touched.
C40_Witness ==
    /\ res.op = "put"
    /\ ttl_days = 1
    /\ res.at = 2 * SecondsPerDay
    /\ res.touched_key # ""
    /\ res.touched_key # res.key
    /\ Len(res.mem) = 3
    /\ res.mem[1].key = res.touched_key
    /\ res.mem[1].last_access = res.at
    /\ res.mem[2].last_access < res.at
    /\ Len(res.deleted) >= 2
    /\ res.deleted[1] = res.mem[2]
    /\ res.deleted[2] = res.mem[1]

\* -------------------------------------------- properties of cached open_text

\* C4: whenever open_text had to download and the download succeeded, it
\* returns a handle on the cached copy with the object's content, and the
\* object is in the cache.
C4_MissReturnsFreshCopy ==
    (res.op = "open" /\ res.dlok)
        => /\ res.kind = "handle"
           /\ res.ver = res.want
           /\ res.key \in KeysOf(index)
           /\ files[res.key] = res.want

\* C9: without forced refresh, when the ETag reported at revalidation
\* differs from the recorded one, the entry is treated as stale, the object
\* is fetched once more and, the fetch succeeding, the new content is
\* returned.
C9_ChangedETagRedownloads ==
    (res.op = "open" /\ ~res.refresh /\ res.hit /\ res.cmp[1] = "differs")
        => /\ ~res.valid
           /\ res.fetched = 1
           /\ res.dlok => (res.kind = "handle" /\ res.ver = res.want)

\* C10 as stated: without forced refresh, a hit whose recorded ETag equals
\* the reported one, its object file in place when the call comes to open
\* it, is served from the cached file, with no fetch, and the entry is
\* kept.
C10_UnchangedETagServedFromCache ==
    (res.op = "open" /\ ~res.refresh /\ res.hit /\ res.cmp[1] = "same" /\ ~res.gone)
        => /\ res.fetched = 0
           /\ res.kind = "handle"
           /\ res.key \in KeysOf(index)

\* C10 amended: without forced refresh, a hit is judged valid, nothing is
\* fetched and the entry is kept when none of ETag, Last-Modified and
\* content length reported at revalidation differs from the recorded
\* value; the call returns the cached file when that file is in place as
\* the call comes to open it, and raises FileNotFoundError when it was
\* removed while the backend was being asked.
C10_NothingDiffersServedFromCache ==
    (res.op = "open" /\ ~res.refresh /\ res.hit
        /\ \A i \in 1..3 : res.cmp[i] # "differs")
        => /\ res.valid
           /\ res.fetched = 0
           /\ res.key \in KeysOf(index)
           /\ ~res.gone => (res.kind = "handle" /\ res.ver = files[res.key])
           /\ res.gone => (res.kind = "raise" /\ res.err = "FileNotFoundError")

\* C10 witness: a second open whose revalidation found the same ETag,
\* Last-Modified and content length and was served without a fetch.
C10_Witness ==
    /\ res.op = "open"
    /\ ~res.refresh
    /\ res.hit
    /\ res.cmp = <<"same", "same", "same">>
    /\ res.fetched = 0
    /\ res.kind = "handle"

\* C11: without forced refresh, a hit for which revalidation got no
\* metadata (head_metadata unsupported, empty or failing) is treated as
\* valid: the entry stays, nothing is fetched, and the cached file, when
\* it is still in place as the call comes to open it, is served.
C11_RevalidationFailsOpen ==
    (res.op = "open" /\ ~res.refresh /\ res.hit /\ res.nometa)
        => /\ res.valid
           /\ res.fetched = 0
           /\ res.key \in KeysOf(index)
           /\ ~res.gone => /\ res.kind = "handle"
                           /\ files[res.key] # NoFile
                           /\ res.ver = files[res.key]

\* C11 witness: the remote object has changed, but with no metadata at
\* revalidation the older cached content is served.
C11_Witness ==
    /\ res.op = "open"
    /\ ~res.refresh
    /\ res.hit
    /\ res.nometa
    /\ res.kind = "handle"
    /\ res.fetched = 0
    /\ res.ver # res.want

\* C12: with the refresh forced, open_text never serves the existing entry:
\* it fetches the object and, the fetch succeeding, the entry of the key is
\* the new download and the new content is returned.
C12_ForcedRefreshRedownloads ==
    (res.op = "open" /\ res.refresh)
        => /\ res.fetched >= 1
           /\ res.dlok => /\ res.kind = "handle"
                          /\ res.ver = res.want
                          /\ res.key \in KeysOf(index)
                          /\ files[res.key] = res.want

\* C13: with a TTL configured, a get of an indexed key, its object file on
\* disk, whose last access is
\* more than ttl_seconds ago returns absent and leaves no entry for the key
\* in the index; with no TTL a get of an indexed key, whatever its age,
\* returns the entry.
C13_TtlExpiry ==
    (res.op = "get" /\ res.had /\ ~res.lost)
        => /\ (ttl_days # NoTtl /\ res.age > ttl_days * SecondsPerDay)
                => (res.kind = "absent" /\ res.key \notin KeysOf(index))
           /\ ttl_days = NoTtl
                => (res.kind = "entry" /\ res.key \in KeysOf(index))

\* C13 witness: a get two days after the last access, under a TTL of one
\* day, found the entry expired.
C13_Witness ==
    /\ res.op = "get"
    /\ res.had
    /\ ~res.lost
    /\ ttl_days = 1
    /\ res.age = 2 * SecondsPerDay
    /\ res.kind = "absent"
    /\ res.key \notin KeysOf(index)

\* C14: an open_text that finds the key indexed but its object file missing
\* does not serve the entry: it fetches the object; a failed fetch leaves no
\* entry for the key, and a successful one returns the object's content
\* from a new entry.
C14_MissingFileSelfHeals ==
    (res.op = "open" /\ res.lost)
        => /\ ~res.hit
           /\ res.fetched >= 1
           /\ ~res.dlok => (res.kind = "raise" /\ res.key \notin KeysOf(index))
           /\ res.dlok => /\ res.kind = "handle"
                          /\ res.ver = res.want
                          /\ res.key \in KeysOf(index)

\* ------------------------------------------ properties of the download loop

\* C15: in a cached or download-mode fetch, the attempt that is accepted
\* delivered as many bytes as were declared; no more than retries + 1
\* attempts are made; and when every attempt is cut short the caller gets
\* the error of the cut-short download after retries + 1 attempts, with no
\* entry put for the key.
C15_MismatchRejected ==
    (res.op \in {"open", "download"} /\ res.fetched >= 1)
        => /\ (res.dlok /\ res.declared # NoLength) => res.received = res.declared
           /\ res.fetched <= Max(0, res.r) + 1
           /\ res.cut => /\ res.kind = "raise"
                         /\ res.err = TruncatedError
                         /\ res.fetched = Max(0, res.r) + 1
                         /\ res.op = "open" => res.key \notin KeysOf(index)

\* C16: when an attempt finds the object missing, that attempt is the last:
\* the call raises the not-found error and no further open_binary is made.
C16_NotFoundNotRetried ==
    (res.op \in {"open", "download"} /\ res.nf >= 1 /\ res.fetched >= res.nf)
        => /\ res.fetched = res.nf
           /\ res.kind = "raise"
           /\ res.err = "FileNotFoundError"

\* ------------------------------------------------ properties of the S3 backend

\* The candidate URLs of the last backend call, and the attempts it grants
\* each candidate.
CalledUrls == S3UriToHttpsUrls(s3.uri)
CalledTries == IF s3.op = "open_binary" THEN s3.retries ELSE 0

\* Candidate u answers one of its attempts with what the operation takes as
\* success, after retryable or connection errors only.
CandidateSucceeds(u) ==
    \E a \in 0..CalledTries :
        /\ IF s3.op = "exists" THEN Respond(endpoints, u, a) = 200
                               ELSE Respond(endpoints, u, a) \in 200..299
        /\ \A b \in 0..(a - 1) :
              Respond(endpoints, u, b) \in RetryableCodes \cup {URLError}

\* Candidate u answers every attempt with a retryable or a connection error.
CandidateFails(u) ==
    \A a \in 0..CalledTries :
        Respond(endpoints, u, a) \in RetryableCodes \cup {URLError}

\* C17: at every point of an open_binary or exists call the requests sent
\* so far went to the candidate URLs in the declared order, never skipping
\* or returning to a candidate; and when the call has ended, it has sent a
\* request, and if a candidate succeeds after every earlier candidate
\* failed with retryable or connection errors the operation has succeeded
\* with that candidate.
C17_CandidatesInOrder ==
    (s3.op \in {"open_binary", "exists"})
        => LET n == Len(s3.requests)
               Pos(j) == CHOOSE i \in 1..Len(CalledUrls) :
                             CalledUrls[i] = s3.requests[j]
           IN  /\ \A j \in 1..n : \E i \in 1..Len(CalledUrls) :
                     CalledUrls[i] = s3.requests[j]
               /\ n >= 1 => Pos(1) = 1
               /\ \A j \in 1..(n - 1) : Pos(j + 1) \in {Pos(j), Pos(j) + 1}
               /\ s3.pc = "idle"
                    => /\ n >= 1
                       /\ \A u \in 1..Len(CalledUrls) :
                             (/\ CandidateSucceeds(u)
                              /\ \A v \in 1..(u - 1) : CandidateFails(v))
                                 => /\ s3.kind = (IF s3.op = "exists" THEN "true"
                                                                      ELSE "response")
                                    /\ s3.url = CalledUrls[u]

\* Only the last candidate succeeds, on a retry, and open_binary returns
\* its response.
C17_Witness ==
    /\ s3.op = "open_binary"
    /\ s3.kind = "response"
    /\ s3.url = CalledUrls[NumCandidates]
    /\ \A v \in 1..(NumCandidates - 1) : CandidateFails(v)
    /\ Len(endpoints[NumCandidates]) = 2
    /\ s3.retries >= 1

\* C18: a 404 answer is the last request of the operation, which ends with
\* that answer: open_binary raises FileNotFoundError and exists returns
\* False, and the call waits for no further answer and no backoff.
C18_NotFoundEndsOperation ==
    (s3.op \in {"open_binary", "exists"})
        => \A j \in 1..Len(s3.codes) :
              s3.codes[j] = 404
                  => /\ j = Len(s3.codes)
                     /\ Len(s3.requests) = j
                     /\ s3.pc = "idle"
                     /\ s3.op = "open_binary"
                           => s3.kind = "raise" /\ s3.err = "FileNotFoundError"
                     /\ s3.op = "exists" => s3.kind = "false"

\* exists meets a 404 at the second candidate, with candidates left, and
\* returns False.
C18_Witness ==
    /\ s3.op = "exists"
    /\ s3.kind = "false"
    /\ Len(s3.codes) = 2
    /\ s3.codes[2] = 404
    /\ s3.codes[1] \in RetryableCodes \cup {URLError}

\* C34: open_binary sends a candidate URL a further request only after a
\* connection error or an HTTP 429, 500, 502, 503 or 504, and at most
\* retries + 1 requests in all; after any other status it sends that URL
\* nothing more; it waits in time.sleep only after such an answer and with
\* an attempt left; so it sends at most candidates x (retries + 1)
\* requests, and it ends with a response, FileNotFoundError or RuntimeError.
C34_BoundedRetriesPerCandidate ==
    (s3.op = "open_binary")
        => LET n == Len(s3.requests)
               Sent(url) == {j \in 1..n : s3.requests[j] = url}
           IN  /\ \A j \in 1..(n - 1) :
                     s3.requests[j + 1] = s3.requests[j]
                         => s3.codes[j] \in {URLError, 429, 500, 502, 503, 504}
               /\ \A j \in 1..n :
                     s3.codes[j] \notin {URLError, 429, 500, 502, 503, 504}
                         => \A i \in (j + 1)..n : s3.requests[i] # s3.requests[j]
               /\ \A j \in 1..n : Cardinality(Sent(s3.requests[j])) <= s3.retries + 1
               /\ n <= Len(CalledUrls) * (s3.retries + 1)
               /\ s3.pc = "sleep"
                    => /\ n >= 1
                       /\ s3.codes[n] \in {URLError, 429, 500, 502, 503, 504}
                       /\ Cardinality(Sent(s3.requests[n])) <= s3.retries
               /\ s3.pc = "idle"
                    => \/ s3.kind = "response"
                       \/ /\ s3.kind = "raise"
                          /\ s3.err \in {"FileNotFoundError", "RuntimeError"}

\* open_binary with a retry budget used every attempt of every candidate,
\* on connection errors and on 503 answers, and failed.
C34_Witness ==
    /\ s3.op = "open_binary"
    /\ s3.retries >= 1
    /\ s3.kind = "raise"
    /\ s3.err = "RuntimeError"
    /\ Len(s3.requests) = Len(CalledUrls) * (s3.retries + 1)
    /\ \E j \in 1..Len(s3.codes) : s3.codes[j] = URLError
    /\ \E j \in 1..Len(s3.codes) : s3.codes[j] = 503

\* C35: when exists or head_metadata has ended, every candidate URL that
\* answered with a connection error or an HTTP 429, 500, 502, 503 or 504
\* was sent a further request, as long as that URL had had at most retries
\* requests, before the call went on to the next candidate.
C35_ExistsRetriesPerCandidate ==
    (s3.op \in {"exists", "head_metadata"} /\ s3.pc = "idle")
        => LET n == Len(s3.requests)
               SentUpTo(j) == {i \in 1..j : s3.requests[i] = s3.requests[j]}
           IN  \A j \in 1..n :
                   (/\ s3.codes[j] \in RetryableCodes \cup {URLError}
                    /\ Cardinality(SentUpTo(j)) <= s3.retries)
                       => /\ j < n
                          /\ s3.requests[j + 1] = s3.requests[j]

\* ------------------------------- properties of the shared cache directory

\* Both processes have returned from a call that put the same key.
BothPut ==
    /\ \A p \in Procs : procs[p].pc = "done" /\ procs[p].put
    /\ \A p, q \in Procs : procs[p].key = procs[q].key

\* C19: when two processes have put the same key, neither call raised, the
\* index holds an entry for the key and the entry's object file exists and
\* holds the whole content of one of the two writers.
C19_RacingPutsBothLand ==
    BothPut
        => /\ \A p \in Procs : procs[p].err = ""
           /\ \A p \in Procs :
                 /\ Has(index, procs[p].key)
                 /\ files[Lookup(index, procs[p].key).path]
                        \in {procs[q].ver : q \in Procs}

\* C20: no process ever loads the index while it is being written, and no
\* object file, on disk under its object path or as read by a process that
\* opened it, is one that was not written to its end.
C20_NoHalfWrittenReads ==
    /\ ~torn
    /\ \A p \in Procs : procs[p].whole /\ procs[p].seen # TornFile
    /\ \A i \in 1..Len(index) :
          index[i].path # "" => files[index[i].path] # TornFile

\* A process has got and read the object the other process put, while that
\* process is still inside its put, replacing the index.
C20_Witness ==
    \E p, q \in Procs :
        /\ ~procs[p].put
        /\ procs[p].pc = "done"
        /\ procs[q].put
        /\ procs[q].pc = "w_replace"
        /\ procs[p].seen = procs[q].ver

\* ------------------------------------------- properties of open_text / exists

\* C21: after open_text(u) with a cache configured has downloaded and put
\* the object, the index holds the entry under the URI string the caller
\* passed, and under no other key.
C21_IndexKeyedByOriginalUri ==
    (res.api = "open_text" /\ res.route = "cached" /\ res.dlok)
        => /\ res.uri \in KeysOf(index)
           /\ res.key # res.uri => res.key \notin KeysOf(index)

\* C22: open_text and exists on a URI whose resolved scheme is not
\* registered raise the no-backend error; no backend call was made, also
\* with a retry budget, and the cache was not accessed.
C22_UnregisteredSchemeFailsFirst ==
    \A u \in Uris :
        (/\ res.api \in {"open_text", "exists"}
         /\ res.uri = Text(u)
         /\ UrlParse(ResolveUri(u)).scheme \notin DOMAIN backends)
            => /\ res.kind = "raise"
               /\ res.err = NoBackend
               /\ res.fetched = 0
               /\ res.route = "none"
               /\ ~res.touched

\* open_text with a retry budget on an ftp URI raised the no-backend error.
C22_Witness ==
    /\ res.api = "open_text"
    /\ res.uri = "ftp://b/x"
    /\ res.r >= 1
    /\ res.err = NoBackend

\* C27: for every URI u that open_text or exists was called with, resolving
\* the resolved URI again yields the resolved URI, and a registry URI
\* resolves to the s3 URI of the same bucket and path.
C27_ResolveUriIdempotent ==
    \A u \in Uris :
        (res.api \in {"open_text", "exists"} /\ res.uri = Text(u))
            => /\ res.key = Text(ResolveUri(u))
               /\ Text(ResolveUri(ResolveUri(u))) = res.key
               /\ UrlParse(u).scheme = "registry"
                    => res.key = Text(<<"s3">> \o Tail(u))

\* C31: when two processes have put different keys into the same directory,
\* neither call raised and the two entries fit the cap together, the index
\* holds an entry for each of the two keys and each object file has its
\* index entry.
C31_RacingPutsOfDifferentKeysBothLand ==
    (/\ \A p \in Procs : procs[p].pc = "done" /\ procs[p].put
                         /\ procs[p].err = ""
     /\ \A p, q \in Procs : p # q => procs[p].key # procs[q].key
     /\ procs[1].size + procs[2].size <= max_bytes)
        => /\ \A p \in Procs : Has(index, procs[p].key)
           /\ \A k \in Keys : files[k] # NoFile => Has(index, k)

\* C32: the .partial file a process downloads into stays in place until the
\* process's put has moved it, whatever CacheStore the other process
\* constructs meanwhile, and the put does not fail for a missing file.
C32_DownloadNotDisturbed ==
    \A p \in Procs :
        /\ procs[p].pc \in {"dl_write", "put_replace"} => partials[p] # NoPartial
        /\ (procs[p].pc = "done" /\ procs[p].put) => procs[p].at # "put_replace"

\* C33: a call of open_text that downloads leaves none of the temp files of
\* its failed attempts on disk, whether the attempt was cut short or its
\* body raised while being read, and whether the call ends with a handle or
\* with an error.
C33_NoTempFileLeftBehind ==
    (res.op \in {"open", "download"} /\ res.fetched >= 1) => res.left = 0

\* C28: a step that constructs a CacheStore leaves no .partial file in the
\* objects directory and leaves every object file and the index as they
\* were.
C28_ConstructionRemovesPartials ==
    [][\A p \in Procs :
          (procs[p].pc = "idle" /\ procs'[p].pc = "g_load")
              => /\ \A q \in Procs : partials'[q] = NoPartial
                 /\ files' = files
                 /\ index' = index
                 /\ torn' = torn]_vars

\* A process that had created its .partial file no longer has it, the other
\* process has just constructed its CacheStore, and the object file and the
\* index entry of the other key are in place.
C28_Witness ==
    \E p, q \in Procs :
        /\ p # q
        /\ procs[p].pc = "dl_write"
        /\ partials[p] = NoPartial
        /\ procs[q].pc = "g_load"
        /\ index = <<OtherEntry>>
        /\ files[OtherKey] # NoFile

\* C39: an open_text call on a URI that resolves to a bare path or to a
\* file: URI goes straight to the backend: it leaves the index and the
\* object files as they were, does not touch the cache directory and makes
\* no download to a temp file, whether or not a cache is configured or
\* download mode is asked for.
C39_LocalBypassesCache ==
    [][\A u \in Uris :
          (/\ res'.api = "open_text"
           /\ res'.uri = Text(u)
           /\ UrlParse(ResolveUri(u)).scheme \in {"", "file"})
              => /\ index' = index
                 /\ files' = files
                 /\ res'.route = "direct"
                 /\ ~res'.touched]_vars

\* open_text of a local path with a cache configured and download mode asked
\* for returned a handle, while the cache holds an object.
C39_Witness ==
    /\ res.api = "open_text"
    /\ res.uri \in {"/x", "file:file:x"}
    /\ res.cached
    /\ res.download
    /\ res.kind = "handle"
    /\ index # <<>>

\* ------------------------------------------------- properties of the handles

\* C23: the temp file of a download-mode handle exists until the handle is
\* closed and is gone after the close, whether or not the close raised.
C23_TempFileLivesWithHandle ==
    (handle.kind = "_CleanupTextIO")
        => /\ handle.closes = 0 => handle.tmp = "exists"
           /\ handle.closes >= 1 => handle.tmp = "gone"

\* The first close of a download-mode handle raised, and the temp file is gone.
C23_Witness ==
    /\ handle.kind = "_CleanupTextIO"
    /\ handle.closes = 1
    /\ handle.raised
    /\ handle.tmp = "gone"

\* The position of the first close() call on resource x in the last close.
FirstCall(x) == CHOOSE i \in 1..Len(handle.log) :
                   /\ handle.log[i] = x
                   /\ \A j \in 1..(i - 1) : handle.log[j] # x
Called(x) == \E i \in 1..Len(handle.log) : handle.log[i] = x

\* C24: the first close of a handle calls close() on the decompressor (when
\* there is one), then on the buffered reader, then on the binary stream,
\* whichever of them raise, and every resource whose close() stopped raising
\* ends closed.
C24_EveryResourceReleased ==
    (handle.kind # "none" /\ handle.closes = 1)
        => /\ Called("buffered") /\ Called("raw")
           /\ FirstCall("buffered") < FirstCall("raw")
           /\ handle.gz => /\ Called("decompressor")
                           /\ FirstCall("decompressor") < FirstCall("buffered")
           /\ handle.rawFail # "always" => handle.raw = "closed"
           /\ (handle.gz /\ handle.decFail # "always") => handle.dec = "closed"

\* The close of a gzip handle raised because the decompressor did, and the
\* binary stream is closed all the same.
C24_Witness ==
    /\ handle.gz
    /\ handle.closes = 1
    /\ handle.raised
    /\ handle.decFail = "always"
    /\ handle.raw = "closed"

\* C25: a second or later close raises nothing and changes no state.
C25_CloseIdempotent ==
    (handle.kind # "none" /\ handle.closes >= 2)
        => ~handle.raised /\ ~handle.changed

\* C26: a stream that starts with the gzip magic number reads as the
\* decompressed text; any other stream of valid text reads as its decoded
\* bytes from the first byte on.
C26_GzipDetectedByMagic ==
    (handle.kind # "none" /\ handle.read # "no")
        => IF SubSeq(handle.bytes, 1, Min(2, Len(handle.bytes))) = GzipMagic
           THEN /\ handle.read = "text"
                /\ handle.out = Decode(Gunzip(handle.bytes)).text
           ELSE Decode(handle.bytes).ok
                    => /\ handle.read = "text"
                       /\ handle.out = Decode(handle.bytes).text

=============================================================================
